---------------------------- MODULE Spec2Model ----------------------------
(***************************************************************************)
(* A model of the Kraken API client library: the nonce source              *)
(* (auth/nonce.rs), the token buckets, the order-aging limiter and its     *)
(* TTL cache (rate_limit/), and the rate-limit facade                      *)
(* (rate_limit/client.rs).                                                 *)
(*                                                                         *)
(* Each subsystem has its own specification over its own variables; the    *)
(* variables of the other subsystems stay at a fixed quiet value.          *)
(*                                                                         *)
(* Time is an integer number of milliseconds.  Scaled counters are the     *)
(* code's i64 counters (points x 100).  A decay rate given to a            *)
(* constructor (an f64, per second) is written in thousandths per second.  *)
(***************************************************************************)
EXTENDS Integers, Sequences, FiniteSets, TLC

VARIABLES
    \* ---- nonce source (auth/nonce.rs) ----
    last_nonce,     \* provider -> IncreasingNonce.last_nonce (AtomicU64)
    npc,            \* thread -> position inside next_nonce
    nprov,          \* thread -> the provider its current call is on
    time_nonce,     \* thread -> local `time_nonce`
    nlast,          \* thread -> local `last` (the value loaded)
    issued,         \* the nonces returned so far, in the order of their CAS
    \* ---- cancel_penalty as a pure function (rate_limit/trading.rs) ----
    ageA, ageB,     \* two order ages (ms) given to cancel_penalty
    penA, penB,     \* what cancel_penalty returned for them (-1: not yet)
    \* ---- the limiters (rate_limit/client.rs, trading.rs, ttl_cache.rs) ----
    harness,        \* which limiter the caller drives: "private" or "trading"
    now,            \* the monotonic clock (Instant::now()), in ms
    tier,           \* RateLimitConfig.tier
    pl,             \* the PrivateRateLimiter
    tl,             \* the TradingRateLimiter (with its TtlCache `orders`)
    ret,            \* what the last limiter call returned
    placed,         \* order id -> when it was last recorded, for the ids
                    \* recorded and not since cancelled or filled
    \* ---- the rate-limit facade (rate_limit/client.rs) ----
    enabled,        \* RateLimitConfig.enabled
    fpc,            \* task -> position inside its facade call
    fkind,          \* task -> the endpoint it is calling
    fid,            \* task -> the order id it passes to the limiter
    fwake,          \* task -> the deadline of its tokio::time::sleep
    fseq,           \* add_order calls made so far
    open,           \* server ids of the orders add_order has returned,
                    \* less those cancel_order has cancelled since
    fleft,          \* calls the callers have yet to make (Unbounded: any)
    \* ---- the sliding windows (rate_limit/keyed.rs) ----
    pubw,           \* a SlidingWindow (the facade's public_limiter)
    obw,            \* KeyedRateLimiter.limiters: key -> SlidingWindow
    wret,           \* what the last try_acquire on a window returned
    wlog,           \* the instants at which pubw admitted a call
    olog,           \* key -> the instants at which its window admitted
    \* ---- a TtlCache called directly (rate_limit/ttl_cache.rs) ----
    cache,          \* TtlCache.cache: key -> [value, timestamp]
    cttl,           \* TtlCache.ttl, in ms
    cnow,           \* the monotonic clock the cache reads, in ms
    cret,           \* what the last call on the cache returned
    cins,           \* key -> [value, t0] of its most recent insert, for
                    \* the keys not removed since
    \* ---- a streaming session (spot/ws/stream.rs, futures/ws/stream.rs) ----
    flavor,         \* "spot": KrakenStream, "futures": FuturesStream
    max_reconnect_attempts,   \* config.max_reconnect_attempts (Unbounded: None)
    private,        \* the session was made by connect_private
    auth_state,     \* FuturesStream.auth_state is Some
    sink,           \* self.sink is Some
    receiver,       \* self.receiver: "none", or Some of a socket that is
                    \* "live" or has "ended"
    connected,      \* self.connected
    reconnecting,   \* self.reconnecting
    reconnect_attempt,        \* self.reconnect_attempt
    last_ping,      \* self.last_ping: "none", "sent", or "overdue" once
                    \* config.pong_timeout has passed since it was sent
    subscriptions,  \* self.subscriptions: key -> [params, status]
    ev,             \* what the last poll_next returned
    closed,         \* close() has completed
    rrun,           \* Reconnecting events emitted since the session was
                    \* last connected (counted up to MaxRunCounted)
    wire,           \* the subscribe/unsubscribe frames written to the
                    \* current socket, in order
    owed,           \* <<key, symbol>>: confirmations the server has yet
                    \* to send for the subscribe frames it received
    got,            \* key -> its symbols confirmed since it was recorded
    dropped,        \* keys unsubscribed and not recorded again since
    rejected,       \* keys whose subscribe request the server answered
                    \* with an error, and not recorded again since
    pings,          \* pings written to the socket and not yet answered
                    \* (counted up to MaxPingsCounted)
    sleft,          \* subscribe/unsubscribe calls the caller has left
    rres,           \* what the last reconnect() returned
    unsent,         \* keys whose latest subscribe call stored its record
                    \* and wrote no frame (send failed or call dropped),
                    \* and which were not unsubscribed since
    \* pure functions
    cpc,            \* "idle", "call" (argument chosen) or "ret" (returned)
    carg,           \* the argument of the call
    cval,           \* the value returned
    \* challenge authentication
    apc,            \* "start", "waiting", "session", "failed" ("idle")
    credentials,    \* the session's credentials, or None
    heard,          \* the frames wait_for_challenge has read
    astate,           \* auth_state: None or the challenge pair
    asent,           \* the frames written to the socket
    feeds,          \* keys of self.subscriptions
    arefused,        \* subscribe_private calls that returned Err
    aerr,           \* the error connect_private failed with
    aleft,          \* reads and calls left
    \* the outbound socket of a token-flavor session and its senders
    ksink,          \* self.sink is Some
    kconnected,     \* self.connected
    klast_ping,     \* self.last_ping is Some
    kholder,        \* the task that holds the sink's Mutex (0: none)
    kpc,            \* task -> where it stands in its send
    kframe,         \* task -> the frame it sends
    ksocket,        \* what was written to the socket: parts of frames
    kres,           \* what the caller's last call returned
    kleft           \* calls the caller has left

nonceVars == <<last_nonce, npc, nprov, time_nonce, nlast, issued>>
penaltyVars == <<ageA, ageB, penA, penB>>
limiterVars == <<harness, now, tier, pl, tl, ret, placed>>

facadeVars == <<enabled, fpc, fkind, fid, fwake, fseq, open, fleft>>

windowVars == <<pubw, obw, wret, wlog, olog>>

cacheVars == <<cache, cttl, cnow, cret, cins>>

streamVars ==
    <<flavor, max_reconnect_attempts, private, auth_state, sink, receiver,
      connected, reconnecting, reconnect_attempt, last_ping, subscriptions,
      ev, closed, rrun, wire, owed, got, dropped, rejected, pings, sleft,
      rres, unsent>>

\* One call of a pure function: where the call stands, its argument and the
\* value it returned.
callVars == <<cpc, carg, cval>>

\* The challenge-flavor session from connect to its private subscriptions.
authVars ==
    <<apc, credentials, heard, astate, asent, feeds, arefused, aerr, aleft>>

sinkVars ==
    <<ksink, kconnected, klast_ping, kholder, kpc, kframe, ksocket, kres, kleft>>

vars == <<nonceVars, penaltyVars, limiterVars, facadeVars, windowVars,
          cacheVars, streamVars, callVars, authVars, sinkVars>>

\* What a step of one subsystem leaves alone.  (The facade works on the
\* limiters: its steps say themselves what they do to limiterVars.)
NonceFrame ==
    UNCHANGED <<penaltyVars, limiterVars, facadeVars, windowVars, cacheVars,
                streamVars, callVars, authVars, sinkVars>>
PenaltyFrame ==
    UNCHANGED <<nonceVars, limiterVars, facadeVars, windowVars, cacheVars,
                streamVars, callVars, authVars, sinkVars>>
LimiterFrame ==
    UNCHANGED <<nonceVars, penaltyVars, facadeVars, windowVars, cacheVars,
                streamVars, callVars, authVars, sinkVars>>
FacadeFrame ==
    UNCHANGED <<nonceVars, penaltyVars, windowVars, cacheVars, streamVars, callVars, authVars, sinkVars,
                harness, tier, ret, placed>>
\* A step on the windows alone; the clock `now` is the step's own business.
WindowFrame ==
    UNCHANGED <<nonceVars, penaltyVars, facadeVars, cacheVars, streamVars, callVars, authVars, sinkVars,
                harness, tier, pl, tl, ret, placed>>
CacheFrame ==
    UNCHANGED <<nonceVars, penaltyVars, limiterVars, facadeVars, windowVars,
                streamVars, callVars, authVars, sinkVars>>
StreamFrame ==
    UNCHANGED <<nonceVars, penaltyVars, limiterVars, facadeVars, windowVars,
                cacheVars, callVars, authVars, sinkVars>>

Max(a, b) == IF a >= b THEN a ELSE b
Min(a, b) == IF a <= b THEN a ELSE b

(***************************************************************************)
(* Bounds of the model.                                                    *)
(***************************************************************************)
NumThreads == 2       \* threads calling next_nonce
NumClients == 2       \* separately built clients, one IncreasingNonce each
MaxClock == 2         \* wall-clock readings are 0..MaxClock, in any order
MaxCalls == 3         \* next_nonce calls started in one behaviour

Threads == 1..NumThreads
Providers == 1..NumClients
ClockReadings == 0..MaxClock

(***************************************************************************)
(* auth/nonce.rs                                                           *)
(***************************************************************************)

\* IncreasingNonce::new: last_nonce starts at 0.  A client builder that was
\* given no nonce provider makes a new IncreasingNonce of its own
\* (SpotRestClientBuilder::build, FuturesRestClientBuilder::build).
IncreasingNonceNew == 0

\* A plausible slip: the candidate is max(now, last), without the + 1.
NextNonceNoIncrement(t, last) == Max(t, last)

\* `let next = time_nonce.max(last + 1);`
NextNonce(t, last) == Max(t, last + 1)

NonceInit ==
    /\ last_nonce = [p \in Providers |-> IncreasingNonceNew]
    /\ npc = [t \in Threads |-> "idle"]
    /\ nprov = [t \in Threads |-> 1]
    /\ time_nonce = [t \in Threads |-> 0]
    /\ nlast = [t \in Threads |-> 0]
    /\ issued = <<>>

NonceCallsStarted ==
    Len(issued) + Cardinality({t \in Threads : npc[t] # "idle"})

\* next_nonce entry: `let time_nonce = Self::current_time_micros();`
\* The wall clock (SystemTime) may stall or step backwards: any reading.
NonceReadClock(t, p, c) ==
    /\ npc[t] = "idle"
    /\ NonceCallsStarted < MaxCalls
    /\ time_nonce' = [time_nonce EXCEPT ![t] = c]
    /\ nprov' = [nprov EXCEPT ![t] = p]
    /\ npc' = [npc EXCEPT ![t] = "load"]
    /\ UNCHANGED <<last_nonce, nlast, issued>>
    /\ NonceFrame

\* `let last = self.last_nonce.load(Ordering::SeqCst);`
NonceLoad(t) ==
    /\ npc[t] = "load"
    /\ nlast' = [nlast EXCEPT ![t] = last_nonce[nprov[t]]]
    /\ npc' = [npc EXCEPT ![t] = "cas"]
    /\ UNCHANGED <<last_nonce, nprov, time_nonce, issued>>
    /\ NonceFrame

\* `compare_exchange(last, next, ..).is_ok()` succeeded: return next.
NonceCasOk(t) ==
    /\ npc[t] = "cas"
    /\ last_nonce[nprov[t]] = nlast[t]
    /\ LET next == NextNonce(time_nonce[t], nlast[t])
       IN /\ last_nonce' = [last_nonce EXCEPT ![nprov[t]] = next]
          /\ issued' = Append(issued,
                 [thread |-> t, provider |-> nprov[t], nonce |-> next])
    /\ npc' = [npc EXCEPT ![t] = "idle"]
    /\ UNCHANGED <<nprov, time_nonce, nlast>>
    /\ NonceFrame

\* The compare_exchange failed: another thread updated the value; retry.
NonceCasFail(t) ==
    /\ npc[t] = "cas"
    /\ last_nonce[nprov[t]] # nlast[t]
    /\ npc' = [npc EXCEPT ![t] = "load"]
    /\ UNCHANGED <<last_nonce, nprov, time_nonce, nlast, issued>>
    /\ NonceFrame

NonceNext ==
    \/ \E t \in Threads, p \in Providers, c \in ClockReadings :
           NonceReadClock(t, p, c)
    \/ \E t \in Threads : NonceLoad(t)
    \/ \E t \in Threads : NonceCasOk(t)
    \/ \E t \in Threads : NonceCasFail(t)


(***************************************************************************)
(* rate_limit/mod.rs, types/common.rs: constants and tier parameters       *)
(***************************************************************************)
CANCEL_PENALTY_UNDER_5S == 8
CANCEL_PENALTY_5_TO_10S == 6
CANCEL_PENALTY_10_TO_15S == 5
CANCEL_PENALTY_15_TO_45S == 4
CANCEL_PENALTY_45_TO_90S == 2
CANCEL_PENALTY_OVER_90S == 0

OrderTtlMs == 300000      \* TtlCache::new(Duration::from_secs(300))
PlaceCost == 100          \* try_place_order: `let cost = 100;`
PrivateCost == 100        \* PrivateRateLimiter::try_acquire: `let cost = 100;`

TierNames == {"Starter", "Intermediate", "Pro"}

\* VerificationTier::rate_limit_params: (max_counter, decay_rate_per_sec),
\* the rate in thousandths per second (0.33 -> 330).
RateLimitParams(t) ==
    CASE t = "Starter" -> <<15, 330>>
      [] t = "Intermediate" -> <<20, 500>>
      [] t = "Pro" -> <<20, 1000>>

\* `(decay_rate_per_sec * 100.0) as i64`: scale by 100, truncate.
ScaledRate(rate_milli) == (rate_milli * 100) \div 1000

\* `(elapsed_secs * self.decay_rate as f64) as i64`: the product truncated.
\* The clock of the model moves in multiples of 250 ms, for which the f64
\* product is exact, so the truncated product is the integer quotient.
DecayAmount(elapsed_ms, decay_rate) == (elapsed_ms * decay_rate) \div 1000

\* `Duration::from_secs_f64(excess as f64 / self.decay_rate as f64)`, in
\* whole microseconds (rounded to nearest; the code keeps nanoseconds).
\* A zero rate makes the quotient infinite and from_secs_f64 panic.
WaitDuration(excess, decay_rate) ==
    IF decay_rate = 0 THEN -1
    ELSE (2 * excess * 1000000 + decay_rate) \div (2 * decay_rate)

(***************************************************************************)
(* rate_limit/trading.rs: cancel_penalty                                   *)
(***************************************************************************)

\* A plausible slip: the brackets closed at their upper ends (<=).
CancelPenaltyInclusive(age_ms) ==
    LET secs == age_ms \div 1000
    IN IF secs <= 5 THEN CANCEL_PENALTY_UNDER_5S
       ELSE IF secs <= 10 THEN CANCEL_PENALTY_5_TO_10S
       ELSE IF secs <= 15 THEN CANCEL_PENALTY_10_TO_15S
       ELSE IF secs <= 45 THEN CANCEL_PENALTY_15_TO_45S
       ELSE IF secs <= 90 THEN CANCEL_PENALTY_45_TO_90S
       ELSE CANCEL_PENALTY_OVER_90S

\* TradingRateLimiter::cancel_penalty(age); `age.as_secs()` drops the
\* fraction of a second.
cancel_penalty(age_ms) ==
    LET secs == age_ms \div 1000
    IN IF secs < 5 THEN CANCEL_PENALTY_UNDER_5S
       ELSE IF secs < 10 THEN CANCEL_PENALTY_5_TO_10S
       ELSE IF secs < 15 THEN CANCEL_PENALTY_10_TO_15S
       ELSE IF secs < 45 THEN CANCEL_PENALTY_15_TO_45S
       ELSE IF secs < 90 THEN CANCEL_PENALTY_45_TO_90S
       ELSE CANCEL_PENALTY_OVER_90S

MaxPenaltySecs == 100     \* ages given to cancel_penalty: up to this

PenaltyAges ==
    {s * 1000 + f : s \in 0..MaxPenaltySecs, f \in {0, 999}}
PenaltyEdgeAges ==
    {a \in PenaltyAges :
        a \div 1000 \in {0, 4, 5, 9, 10, 14, 15, 44, 45, 89, 90, MaxPenaltySecs}}

PenaltyInit ==
    /\ ageA \in PenaltyAges
    /\ ageB \in PenaltyEdgeAges
    /\ penA = -1
    /\ penB = -1

PenaltyApply ==
    /\ penA = -1
    /\ penA' = cancel_penalty(ageA)
    /\ penB' = cancel_penalty(ageB)
    /\ UNCHANGED <<ageA, ageB>>
    /\ PenaltyFrame

PenaltyNext == PenaltyApply

(***************************************************************************)
(* rate_limit/ttl_cache.rs: TtlCache<K, V>.  A cache is a function from    *)
(* its keys to [value, timestamp]; expired entries stay in it until        *)
(* removed.                                                                *)
(***************************************************************************)
TtlNew == <<>>

None == [some |-> FALSE]

\* insert: `self.cache.insert(key, (value, Instant::now()))`
TtlInsert(c, k, v, t) ==
    [x \in (DOMAIN c) \cup {k} |->
        IF x = k THEN [value |-> v, timestamp |-> t] ELSE c[x]]

\* HashMap::remove
TtlDrop(c, k) == [x \in (DOMAIN c) \ {k} |-> c[x]]

\* A plausible slip: the age check left out of remove_with_age.
TtlRemoveWithAgeNoExpiry(c, k, t, ttl) ==
    [cache |-> TtlDrop(c, k),
     result |-> IF k \in DOMAIN c
                THEN [some |-> TRUE, value |-> c[k].value,
                      age |-> t - c[k].timestamp]
                ELSE None]

\* remove_with_age: the entry leaves the map; Some((value, age)) only when
\* `age < self.ttl`.
TtlRemoveWithAge(c, k, t, ttl) ==
    [cache |-> TtlDrop(c, k),
     result |-> IF k \in DOMAIN c /\ t - c[k].timestamp < ttl
                THEN [some |-> TRUE, value |-> c[k].value,
                      age |-> t - c[k].timestamp]
                ELSE None]

\* remove: the entry leaves the map (the value returned is not used by the
\* limiter).
TtlRemove(c, k) == TtlDrop(c, k)

\* cleanup: `retain(|_, (_, timestamp)| timestamp.elapsed() < ttl)`
TtlCleanup(c, t, ttl) ==
    [x \in {y \in DOMAIN c : t - c[y].timestamp < ttl} |-> c[x]]

\* active_count
TtlActiveCount(c, t, ttl) ==
    Cardinality({y \in DOMAIN c : t - c[y].timestamp < ttl})

\* A plausible slip: `<=` for `<` in the expiry test of get.
TtlGetInclusive(c, k, t, ttl) ==
    IF k \in DOMAIN c /\ t - c[k].timestamp <= ttl
    THEN [some |-> TRUE, value |-> c[k].value]
    ELSE None

\* get: Some(value) only when `timestamp.elapsed() < self.ttl`.
TtlGet(c, k, t, ttl) ==
    IF k \in DOMAIN c /\ t - c[k].timestamp < ttl
    THEN [some |-> TRUE, value |-> c[k].value]
    ELSE None

\* contains / get(..).is_some()
TtlContains(c, k, t, ttl) == k \in DOMAIN c /\ t - c[k].timestamp < ttl

(***************************************************************************)
(* rate_limit/client.rs: PrivateRateLimiter                                *)
(***************************************************************************)
PrivateRateLimiterNew(max_counter, rate_milli, t) ==
    [counter |-> 0,
     max_counter |-> max_counter * 100,
     decay_rate |-> ScaledRate(rate_milli),
     last_update |-> t]

\* A plausible slip: the decayed counter not clamped at zero.
PrivateUpdateNoClamp(l, t) ==
    [l EXCEPT !.counter = l.counter - DecayAmount(t - l.last_update, l.decay_rate),
              !.last_update = t]

\* PrivateRateLimiter::update
PrivateUpdate(l, t) ==
    [l EXCEPT !.counter =
                  Max(l.counter - DecayAmount(t - l.last_update, l.decay_rate), 0),
              !.last_update = t]

\* A plausible slip: `<` for `<=` in the admission test.
PrivateTryAcquireStrict(l, t) ==
    LET u == PrivateUpdate(l, t)
    IN IF u.counter + PrivateCost < u.max_counter
       THEN [lim |-> [u EXCEPT !.counter = @ + PrivateCost],
             ok |-> TRUE, val |-> 0]
       ELSE [lim |-> u, ok |-> FALSE,
             val |-> WaitDuration(u.counter + PrivateCost - u.max_counter,
                                  u.decay_rate)]

\* PrivateRateLimiter::try_acquire: Ok(()) or Err(wait)
PrivateTryAcquire(l, t) ==
    LET u == PrivateUpdate(l, t)
    IN IF u.counter + PrivateCost <= u.max_counter
       THEN [lim |-> [u EXCEPT !.counter = @ + PrivateCost],
             ok |-> TRUE, val |-> 0]
       ELSE [lim |-> u, ok |-> FALSE,
             val |-> WaitDuration(u.counter + PrivateCost - u.max_counter,
                                  u.decay_rate)]

(***************************************************************************)
(* rate_limit/trading.rs: TradingRateLimiter                               *)
(***************************************************************************)
\* OrderTrackingInfo::new(pair)
OrderTrackingInfoNew(pair, t) == [created_at |-> t, pair |-> pair]

TradingRateLimiterNew(max_counter, rate_milli, t) ==
    [orders |-> TtlNew,
     counter |-> 0,
     max_counter |-> max_counter * 100,
     decay_rate |-> ScaledRate(rate_milli),
     last_update |-> t]

\* TradingRateLimiter::update_counter
update_counter(l, t) ==
    [l EXCEPT !.counter =
                  Max(l.counter - DecayAmount(t - l.last_update, l.decay_rate), 0),
              !.last_update = t]

\* A plausible slip: the order recorded before the admission test.
TryPlaceOrderAlwaysRecords(l, id, info, t) ==
    LET u == update_counter(l, t)
        v == [u EXCEPT !.orders = TtlInsert(u.orders, id, info, t)]
    IN IF v.counter + PlaceCost <= v.max_counter
       THEN [lim |-> [v EXCEPT !.counter = @ + PlaceCost],
             ok |-> TRUE, val |-> 0]
       ELSE [lim |-> v, ok |-> FALSE,
             val |-> WaitDuration(v.counter + PlaceCost - v.max_counter,
                                  v.decay_rate)]

\* TradingRateLimiter::try_place_order: Ok(()) or Err(wait)
try_place_order(l, id, info, t) ==
    LET u == update_counter(l, t)
    IN IF u.counter + PlaceCost <= u.max_counter
       THEN [lim |-> [u EXCEPT !.counter = @ + PlaceCost,
                               !.orders = TtlInsert(u.orders, id, info, t)],
             ok |-> TRUE, val |-> 0]
       ELSE [lim |-> u, ok |-> FALSE,
             val |-> WaitDuration(u.counter + PlaceCost - u.max_counter,
                                  u.decay_rate)]

\* TradingRateLimiter::track_order
track_order(l, id, info, t) ==
    [l EXCEPT !.orders = TtlInsert(l.orders, id, info, t)]

\* A plausible slip: an untracked order charged the smallest penalty.
UntrackedPenaltyNone == CANCEL_PENALTY_OVER_90S

\* try_cancel_order: "Order not tracked, assume worst case"
UntrackedPenalty == CANCEL_PENALTY_UNDER_5S

\* TradingRateLimiter::try_cancel_order: Ok(penalty) or Err(wait).  The
\* order leaves the table before the admission test, admitted or not.
try_cancel_order(l, id, t) ==
    LET u == update_counter(l, t)
        r == TtlRemoveWithAge(u.orders, id, t, OrderTtlMs)
        penalty == IF r.result.some THEN cancel_penalty(r.result.age)
                   ELSE UntrackedPenalty
        cost == penalty * 100
        v == [u EXCEPT !.orders = r.cache]
    IN IF v.counter + cost <= v.max_counter
       THEN [lim |-> [v EXCEPT !.counter = @ + cost],
             ok |-> TRUE, val |-> penalty]
       ELSE [lim |-> v, ok |-> FALSE,
             val |-> WaitDuration(v.counter + cost - v.max_counter,
                                  v.decay_rate)]

\* TradingRateLimiter::order_cancelled
order_cancelled(l, id) == [l EXCEPT !.orders = TtlRemove(l.orders, id)]

\* TradingRateLimiter::order_filled
order_filled(l, id) == [l EXCEPT !.orders = TtlRemove(l.orders, id)]

\* TradingRateLimiter::tracked_orders
tracked_orders(l, t) == TtlActiveCount(l.orders, t, OrderTtlMs)

\* TradingRateLimiter::cleanup
cleanup(l, t) == [l EXCEPT !.orders = TtlCleanup(l.orders, t, OrderTtlMs)]

\* The counter as update / update_counter would leave it at time t: the
\* points (x 100) charged and not yet decayed.
DecayedCounter(l, t) ==
    Max(l.counter - DecayAmount(t - l.last_update, l.decay_rate), 0)

(***************************************************************************)
(* The limiters called directly, as the unit tests of client.rs and        *)
(* trading.rs call them: a caller drives either a PrivateRateLimiter or a  *)
(* TradingRateLimiter, built with the parameters of one tier.              *)
(***************************************************************************)
NumOrderIds == 2          \* order ids the callers use

OrderIds == {<<"O", i>> : i \in 1..NumOrderIds}
UnknownId == <<"O", 0>>     \* an id no caller ever records
CancelIds == OrderIds \cup {UnknownId}
NoId == <<"none", 0>>
Pair == "BTC/USD"

\* The instants at which the model looks at the clock (ms).
PrivateInstants == {0, 250, 500, 1000, 3000, 5000}
TradingInstants == {0, 3000, 100000, 300000}
DirectInstants(h) == IF h = "private" THEN PrivateInstants ELSE TradingInstants

NoRet == [op |-> "none", id |-> NoId, ok |-> TRUE, val |-> 0]

LimiterInit ==
    /\ harness \in {"private", "trading"}
    /\ now = 0
    /\ tier \in TierNames
    /\ pl = PrivateRateLimiterNew(RateLimitParams(tier)[1],
                                  RateLimitParams(tier)[2], 0)
    /\ tl = TradingRateLimiterNew(RateLimitParams(tier)[1],
                                  RateLimitParams(tier)[2], 0)
    /\ ret = NoRet
    /\ placed = <<>>

\* Time passes (thread::sleep in the tests).
Advance(t) ==
    /\ t > now
    /\ now' = t
    /\ UNCHANGED <<harness, tier, pl, tl, ret, placed>>
    /\ LimiterFrame

Forget(f, k) == [x \in (DOMAIN f) \ {k} |-> f[x]]
Remember(f, k, v) == [x \in (DOMAIN f) \cup {k} |-> IF x = k THEN v ELSE f[x]]

DTryAcquire ==
    /\ harness = "private"
    /\ LET r == PrivateTryAcquire(pl, now)
       IN /\ pl' = r.lim
          /\ ret' = [op |-> "try_acquire", id |-> NoId,
                     ok |-> r.ok, val |-> r.val]
    /\ UNCHANGED <<harness, now, tier, tl, placed>>
    /\ LimiterFrame

DTryPlaceOrder(id) ==
    /\ harness = "trading"
    /\ LET r == try_place_order(tl, id, OrderTrackingInfoNew(Pair, now), now)
       IN /\ tl' = r.lim
          /\ ret' = [op |-> "try_place_order", id |-> id,
                     ok |-> r.ok, val |-> r.val]
          /\ placed' = IF r.ok THEN Remember(placed, id, now) ELSE placed
    /\ UNCHANGED <<harness, now, tier, pl>>
    /\ LimiterFrame

DTrackOrder(id) ==
    /\ harness = "trading"
    /\ tl' = track_order(tl, id, OrderTrackingInfoNew(Pair, now), now)
    /\ ret' = [op |-> "track_order", id |-> id, ok |-> TRUE, val |-> 0]
    /\ placed' = Remember(placed, id, now)
    /\ UNCHANGED <<harness, now, tier, pl>>
    /\ LimiterFrame

DTryCancelOrder(id) ==
    /\ harness = "trading"
    /\ LET r == try_cancel_order(tl, id, now)
       IN /\ tl' = r.lim
          /\ ret' = [op |-> "try_cancel_order", id |-> id,
                     ok |-> r.ok, val |-> r.val]
          /\ placed' = IF r.ok THEN Forget(placed, id) ELSE placed
    /\ UNCHANGED <<harness, now, tier, pl>>
    /\ LimiterFrame

DOrderCancelled(id) ==
    /\ harness = "trading"
    /\ tl' = order_cancelled(tl, id)
    /\ ret' = [op |-> "order_cancelled", id |-> id, ok |-> TRUE, val |-> 0]
    /\ placed' = Forget(placed, id)
    /\ UNCHANGED <<harness, now, tier, pl>>
    /\ LimiterFrame

DOrderFilled(id) ==
    /\ harness = "trading"
    /\ tl' = order_filled(tl, id)
    /\ ret' = [op |-> "order_filled", id |-> id, ok |-> TRUE, val |-> 0]
    /\ placed' = Forget(placed, id)
    /\ UNCHANGED <<harness, now, tier, pl>>
    /\ LimiterFrame

DCleanup ==
    /\ harness = "trading"
    /\ tl' = cleanup(tl, now)
    /\ ret' = [op |-> "cleanup", id |-> NoId, ok |-> TRUE, val |-> 0]
    /\ UNCHANGED <<harness, now, tier, pl, placed>>
    /\ LimiterFrame

LimiterNext ==
    \/ \E t \in DirectInstants(harness) : Advance(t)
    \/ DTryAcquire
    \/ \E id \in OrderIds : DTryPlaceOrder(id)
    \/ \E id \in OrderIds : DTrackOrder(id)
    \/ \E id \in CancelIds : DTryCancelOrder(id)
    \/ \E id \in OrderIds : DOrderCancelled(id)
    \/ \E id \in OrderIds : DOrderFilled(id)
    \/ DCleanup

(***************************************************************************)
(* rate_limit/client.rs: RateLimitedClient<C>.  Tasks call its endpoints   *)
(* concurrently; each limiter sits behind its own tokio Mutex, held for    *)
(* one try_* call at a time, so one locked section is one step.            *)
(***************************************************************************)
NumTasks == 1             \* tasks calling the facade concurrently
MaxAddOrders == 1         \* add_order calls made in one behaviour

Tasks == 1..NumTasks
\* No limit on the number of calls the callers make.
Unbounded == 0 - 1
FacadeInstants == {0, 8000}
PrivateKinds == {"private", "cancel_all_orders"}

\* add_order: `format!("pending_{}", ..as_nanos())`; the n-th call's id.
TempId(n) == <<"pending", n>>
\* The id the server assigns to the order of the n-th add_order call.
ServerId(n) == <<"O", n>>
\* The ids a caller may ask to cancel: assigned ones and an unknown one.
FacadeCancelIds == {ServerId(n) : n \in 1..MaxAddOrders} \cup {UnknownId}

\* tokio::time::sleep(wait_time): the timer fires at the first whole
\* millisecond at or after the deadline.
SleepDeadline(t, wait_micros) == t + (wait_micros + 999) \div 1000

FacadeInit ==
    /\ harness = "facade"
    /\ now = 0
    /\ tier \in TierNames
    /\ enabled \in BOOLEAN
    /\ pl = PrivateRateLimiterNew(RateLimitParams(tier)[1],
                                  RateLimitParams(tier)[2], 0)
    /\ tl = TradingRateLimiterNew(RateLimitParams(tier)[1],
                                  RateLimitParams(tier)[2], 0)
    /\ ret = NoRet
    /\ placed = <<>>
    /\ fpc = [k \in Tasks |-> "idle"]
    /\ fkind = [k \in Tasks |-> "none"]
    /\ fid = [k \in Tasks |-> NoId]
    /\ fwake = [k \in Tasks |-> 0]
    /\ fseq = 0
    /\ open = {}
    /\ fleft = Unbounded

\* Time passes.
FAdvance(t) ==
    /\ t > now
    /\ now' = t
    /\ UNCHANGED <<pl, tl, facadeVars>>
    /\ FacadeFrame

\* wait_private, wait_trading_order, wait_trading_cancel: what one turn of
\* the loop finds under the lock - the limiters afterwards and the answer.
\* With rate limiting disabled they `return Ok(())` at once.
NotLimited == [pl |-> pl, tl |-> tl, ok |-> TRUE, val |-> 0]

wait_private ==
    IF ~enabled THEN NotLimited
    ELSE LET r == PrivateTryAcquire(pl, now)
         IN [pl |-> r.lim, tl |-> tl, ok |-> r.ok, val |-> r.val]

\* A facade with one bucket for every endpoint: placing draws on the
\* private bucket.
WaitTradingOrderShared(id) ==
    IF ~enabled THEN NotLimited
    ELSE LET r == PrivateTryAcquire(pl, now)
         IN [pl |-> r.lim, tl |-> tl, ok |-> r.ok, val |-> r.val]

wait_trading_order(id) ==
    IF ~enabled THEN NotLimited
    ELSE LET r == try_place_order(tl, id, OrderTrackingInfoNew(Pair, now), now)
         IN [pl |-> pl, tl |-> r.lim, ok |-> r.ok, val |-> r.val]

wait_trading_cancel(id) ==
    IF ~enabled THEN NotLimited
    ELSE LET r == try_cancel_order(tl, id, now)
         IN [pl |-> pl, tl |-> r.lim, ok |-> r.ok, val |-> r.val]

\* Which wait each endpoint of the facade begins with.
WaitOf(kind, id) ==
    CASE kind \in PrivateKinds -> wait_private
      [] kind = "add_order" -> wait_trading_order(id)
      [] kind = "cancel_order" -> wait_trading_cancel(id)

\* One turn of the wait loop of task k.  Refused: the lock is dropped and
\* the task sleeps for the wait.  Admitted: the wait returns Ok and the
\* inner client is called.
WaitTurn(k, kind, id) ==
    LET r == WaitOf(kind, id)
    IN /\ pl' = r.pl
       /\ tl' = r.tl
       /\ fpc' = [fpc EXCEPT ![k] = IF r.ok THEN "inner" ELSE "sleep"]
       /\ fkind' = [fkind EXCEPT ![k] = kind]
       /\ fid' = [fid EXCEPT ![k] = id]
       /\ fwake' = [fwake EXCEPT ![k] =
                       IF r.ok THEN 0 ELSE SleepDeadline(now, r.val)]

\* One more call is made.
CallMade ==
    /\ fleft # 0
    /\ fleft' = IF fleft = Unbounded THEN fleft ELSE fleft - 1

\* A task calls an ordinary private endpoint (get_account_balance, ...) or
\* cancel_all_orders: both begin with wait_private.
FCallPrivate(k, kind) ==
    /\ fpc[k] = "idle"
    /\ CallMade
    /\ WaitTurn(k, kind, NoId)
    /\ UNCHANGED <<now, enabled, fseq, open>>
    /\ FacadeFrame

\* add_order: the temporary id is made, then wait_trading_order.
FCallAddOrder(k) ==
    /\ fpc[k] = "idle"
    /\ fseq < MaxAddOrders
    /\ CallMade
    /\ fseq' = fseq + 1
    /\ WaitTurn(k, "add_order", TempId(fseq + 1))
    /\ UNCHANGED <<now, enabled, open>>
    /\ FacadeFrame

\* cancel_order(request): wait_trading_cancel(&request.txid).
FCallCancelOrder(k, id) ==
    /\ fpc[k] = "idle"
    /\ CallMade
    /\ WaitTurn(k, "cancel_order", id)
    /\ UNCHANGED <<now, enabled, fseq, open>>
    /\ FacadeFrame

\* The sleep is over: the loop takes the lock again and tries again.
FWake(k) ==
    /\ fpc[k] = "sleep"
    /\ now >= fwake[k]
    /\ WaitTurn(k, fkind[k], fid[k])
    /\ UNCHANGED <<now, enabled, fseq, open, fleft>>
    /\ FacadeFrame

\* The call is over: the task is idle again.
Returned(k) ==
    /\ fpc' = [fpc EXCEPT ![k] = "idle"]
    /\ fkind' = [fkind EXCEPT ![k] = "none"]
    /\ fid' = [fid EXCEPT ![k] = NoId]

\* The inner call's answer goes to the caller as it is: any answer of a
\* private endpoint or of cancel_all_orders, an error (`?`) of add_order or
\* cancel_order, an add_order answer without a txid.
FInnerReturns(k) ==
    /\ fpc[k] = "inner"
    /\ Returned(k)
    /\ UNCHANGED <<now, pl, tl, enabled, fwake, fseq, open, fleft>>
    /\ FacadeFrame

\* The inner cancel_order succeeds; the facade does nothing more.
FCancelOrderOk(k) ==
    /\ fpc[k] = "inner"
    /\ fkind[k] = "cancel_order"
    /\ open' = open \ {fid[k]}
    /\ Returned(k)
    /\ UNCHANGED <<now, pl, tl, enabled, fwake, fseq, fleft>>
    /\ FacadeFrame

\* The inner add_order answers with the id the server assigned:
\* `limiter.track_order(order_id, ..)`, then `Ok(result)`.
FAddOrderOk(k) ==
    /\ fpc[k] = "inner"
    /\ fkind[k] = "add_order"
    /\ LET order_id == ServerId(fid[k][2])
       IN /\ tl' = track_order(tl, order_id, OrderTrackingInfoNew(Pair, now), now)
          /\ open' = open \cup {order_id}
    /\ Returned(k)
    /\ UNCHANGED <<now, pl, enabled, fwake, fseq, fleft>>
    /\ FacadeFrame

FacadeNext ==
    \/ \E t \in FacadeInstants : FAdvance(t)
    \/ \E k \in Tasks, kind \in PrivateKinds : FCallPrivate(k, kind)
    \/ \E k \in Tasks : FCallAddOrder(k)
    \/ \E k \in Tasks, id \in FacadeCancelIds : FCallCancelOrder(k, id)
    \/ \E k \in Tasks : FWake(k)
    \/ \E k \in Tasks : FInnerReturns(k)
    \/ \E k \in Tasks : FCancelOrderOk(k)
    \/ \E k \in Tasks : FAddOrderOk(k)

(***************************************************************************)
(* rate_limit/keyed.rs: SlidingWindow, called directly as its unit tests   *)
(* call it.  Instants in ms, waits in microseconds.                        *)
(***************************************************************************)
MaxWindowMax == 2         \* the largest max_requests tried

WindowLengths == {50, 1000}
WindowMaxes == 1..MaxWindowMax
WindowInstants == {0, 20, 50, 60, 1000, 1050}

\* SlidingWindow::new
SlidingWindowNew(window, max_requests) ==
    [requests |-> <<>>, window |-> window, max_requests |-> max_requests]

\* The timestamps of w still inside the window at time t, oldest first.
ActiveRequests(w, t) ==
    LET Active(ts) == t - ts < w.window
    IN SelectSeq(w.requests, Active)

\* SlidingWindow::cleanup_old
cleanup_old(w, t) == [w EXCEPT !.requests = ActiveRequests(w, t)]

\* `self.window.saturating_sub(oldest.elapsed())` of the first timestamp,
\* `unwrap_or_default()` when there is none.
WindowWait(w, t) ==
    IF w.requests = <<>> THEN 0
    ELSE Max(w.window - (t - w.requests[1]), 0) * 1000

\* A plausible slip: `<=` for `<` in the admission test.
SlidingTryAcquireOneMore(w, t) ==
    LET u == cleanup_old(w, t)
    IN IF Len(u.requests) <= u.max_requests
       THEN [win |-> [u EXCEPT !.requests = Append(@, t)], ok |-> TRUE, val |-> 0]
       ELSE [win |-> u, ok |-> FALSE, val |-> WindowWait(u, t)]

\* SlidingWindow::try_acquire: Ok(()) or Err(wait)
SlidingTryAcquire(w, t) ==
    LET u == cleanup_old(w, t)
    IN IF Len(u.requests) < u.max_requests
       THEN [win |-> [u EXCEPT !.requests = Append(@, t)], ok |-> TRUE, val |-> 0]
       ELSE [win |-> u, ok |-> FALSE, val |-> WindowWait(u, t)]

NoWret == [op |-> "none", ok |-> TRUE, val |-> 0]

WindowInit ==
    /\ now = 0
    /\ \E window \in WindowLengths, max_requests \in WindowMaxes :
           pubw = SlidingWindowNew(window, max_requests)
    /\ obw = <<>>
    /\ wret = NoWret
    /\ wlog = <<>>
    /\ olog = <<>>

\* Time passes.
WAdvance(t) ==
    /\ t > now
    /\ now' = t
    /\ wret' = NoWret
    /\ UNCHANGED <<pubw, obw, wlog, olog>>
    /\ WindowFrame

\* limiter.try_acquire()
WTryAcquire ==
    /\ LET r == SlidingTryAcquire(pubw, now)
       IN /\ pubw' = r.win
          /\ wret' = [op |-> "try_acquire", ok |-> r.ok, val |-> r.val]
          /\ wlog' = IF r.ok THEN Append(wlog, now) ELSE wlog
    /\ UNCHANGED <<now, obw, olog>>
    /\ WindowFrame

WindowNext ==
    \/ \E t \in WindowInstants : WAdvance(t)
    \/ WTryAcquire

(***************************************************************************)
(* rate_limit/keyed.rs: KeyedRateLimiter, and rate_limit/client.rs: the    *)
(* public endpoints of RateLimitedClient.  Every public endpoint but       *)
(* get_order_book begins with wait_public; get_order_book begins with      *)
(* wait_orderbook(pair).                                                   *)
(***************************************************************************)
NumPairs == 2             \* trading pairs the callers ask order books for

PublicWindowMs == 1000    \* Duration::from_secs(1)
PublicMaxRequests == 1
OrderbookWindowMs == 1000
OrderbookMaxRequests == 1

PublicKinds == {"get_server_time", "get_ticker"}
PairKey(i) == <<"pair", i>>
Pairs == {PairKey(i) : i \in 1..NumPairs}
PublicInstants == {0, 500, 1000, 1500}

\* A plausible slip: one window for every key.
KeyedTryAcquireOneWindow(limiters, key, t) ==
    LET shared == PairKey(1)
        w == IF shared \in DOMAIN limiters THEN limiters[shared]
             ELSE SlidingWindowNew(OrderbookWindowMs, OrderbookMaxRequests)
        r == SlidingTryAcquire(w, t)
    IN [limiters |-> Remember(limiters, shared, r.win), ok |-> r.ok, val |-> r.val]

\* KeyedRateLimiter::try_acquire(key): the key's window, made on first use
KeyedTryAcquire(limiters, key, t) ==
    LET w == IF key \in DOMAIN limiters THEN limiters[key]
             ELSE SlidingWindowNew(OrderbookWindowMs, OrderbookMaxRequests)
        r == SlidingTryAcquire(w, t)
    IN [limiters |-> Remember(limiters, key, r.win), ok |-> r.ok, val |-> r.val]

PublicInit ==
    /\ harness = "public"
    /\ now = 0
    /\ tier = "Starter"
    /\ enabled \in BOOLEAN
    /\ pubw = SlidingWindowNew(PublicWindowMs, PublicMaxRequests)
    /\ obw = <<>>
    /\ pl = PrivateRateLimiterNew(RateLimitParams(tier)[1],
                                  RateLimitParams(tier)[2], 0)
    /\ tl = TradingRateLimiterNew(RateLimitParams(tier)[1],
                                  RateLimitParams(tier)[2], 0)
    /\ ret = NoRet
    /\ placed = <<>>
    /\ wret = NoWret
    /\ wlog = <<>>
    /\ olog = [p \in Pairs |-> <<>>]
    /\ fpc = [k \in Tasks |-> "idle"]
    /\ fkind = [k \in Tasks |-> "none"]
    /\ fid = [k \in Tasks |-> NoId]
    /\ fwake = [k \in Tasks |-> 0]
    /\ fseq = 0
    /\ open = {}
    /\ fleft = Unbounded

\* wait_public: what one turn of the loop finds under the lock.
wait_public ==
    IF ~enabled THEN [pubw |-> pubw, obw |-> obw, ok |-> TRUE, val |-> 0]
    ELSE LET r == SlidingTryAcquire(pubw, now)
         IN [pubw |-> r.win, obw |-> obw, ok |-> r.ok, val |-> r.val]

\* wait_orderbook(pair): what one turn of the loop finds under the lock.
wait_orderbook(pair) ==
    IF ~enabled THEN [pubw |-> pubw, obw |-> obw, ok |-> TRUE, val |-> 0]
    ELSE LET r == KeyedTryAcquire(obw, pair, now)
         IN [pubw |-> pubw, obw |-> r.limiters, ok |-> r.ok, val |-> r.val]

\* One turn of the wait loop of task k on a public endpoint; the logs
\* note the instant at which a window admits the call.
PublicTurn(k, kind, pair) ==
    LET r == IF kind = "get_order_book" THEN wait_orderbook(pair) ELSE wait_public
    IN /\ pubw' = r.pubw
       /\ obw' = r.obw
       /\ wret' = [op |-> kind, ok |-> r.ok, val |-> r.val]
       /\ wlog' = IF enabled /\ r.ok /\ kind # "get_order_book"
                  THEN Append(wlog, now) ELSE wlog
       /\ olog' = IF enabled /\ r.ok /\ kind = "get_order_book"
                  THEN [olog EXCEPT ![pair] = Append(@, now)] ELSE olog
       /\ fpc' = [fpc EXCEPT ![k] = IF r.ok THEN "inner" ELSE "sleep"]
       /\ fkind' = [fkind EXCEPT ![k] = kind]
       /\ fid' = [fid EXCEPT ![k] = pair]
       /\ fwake' = [fwake EXCEPT ![k] =
                       IF r.ok THEN 0 ELSE SleepDeadline(now, r.val)]
       /\ UNCHANGED <<now, pl, tl, enabled, fseq, open>>
       /\ UNCHANGED <<nonceVars, penaltyVars, cacheVars, streamVars, callVars, authVars, sinkVars,
                    harness, tier, ret, placed>>

\* get_server_time, get_ticker, ...: wait_public, then the inner call.
PCallPublic(k, kind) ==
    /\ fpc[k] = "idle"
    /\ CallMade
    /\ PublicTurn(k, kind, NoId)

\* get_order_book(request): wait_orderbook(&request.pair).
PCallOrderBook(k, pair) ==
    /\ fpc[k] = "idle"
    /\ CallMade
    /\ PublicTurn(k, "get_order_book", pair)

\* The sleep is over: the loop takes the lock again and tries again.
PWake(k) ==
    /\ fpc[k] = "sleep"
    /\ now >= fwake[k]
    /\ PublicTurn(k, fkind[k], fid[k])
    /\ UNCHANGED fleft

PublicNext ==
    \/ \E t \in PublicInstants : FAdvance(t)
    \/ \E k \in Tasks, kind \in PublicKinds : PCallPublic(k, kind)
    \/ \E k \in Tasks, pair \in Pairs : PCallOrderBook(k, pair)
    \/ \E k \in Tasks : PWake(k)
    \/ \E k \in Tasks : FInnerReturns(k)

(***************************************************************************)
(* The facade with finitely many calls, for as long as it takes.  The      *)
(* limiters only ever look at Instant::elapsed(), so the clock is kept     *)
(* relative: `now` stays where it is and every recorded instant moves      *)
(* back as time passes.  An instant too old to make a difference (a        *)
(* bucket decayed to zero, an order past its TTL, a deadline gone by)      *)
(* stays at the oldest value that matters.                                 *)
(***************************************************************************)
NumLiveTasks == 2         \* tasks calling the facade concurrently
MaxLiveCalls == 3         \* calls they make between them
LiveHorizon == 46000      \* ms after which every full bucket is empty

LiveTasks == 1..NumLiveTasks
\* How far the clock moves in one step, in ms: by a fixed stretch, or up to
\* the deadline of a sleeping task (a timer fires no earlier than that).
LiveStretch == {1010}
LiveSteps == LiveStretch \cup {fwake[k] - now : k \in {j \in DOMAIN fwake : fwake[j] > now}}

ElapseBucket(l, d) ==
    LET at == l.last_update - d
    IN [l EXCEPT !.last_update =
            IF DecayAmount(now - at, l.decay_rate) >= l.counter
            THEN now - LiveHorizon ELSE at]

ElapseOrders(c, d) ==
    [k \in DOMAIN c |->
        LET at == Max(c[k].timestamp - d, now - OrderTtlMs)
        IN [value |-> [c[k].value EXCEPT !.created_at = at], timestamp |-> at]]

LiveInit ==
    /\ harness = "facade"
    /\ now = 0
    /\ tier \in TierNames
    /\ enabled = TRUE
    /\ pl = ElapseBucket(PrivateRateLimiterNew(RateLimitParams(tier)[1],
                                               RateLimitParams(tier)[2], 0), 0)
    /\ tl = ElapseBucket(TradingRateLimiterNew(RateLimitParams(tier)[1],
                                               RateLimitParams(tier)[2], 0), 0)
    /\ ret = NoRet
    /\ placed = <<>>
    /\ fpc = [k \in LiveTasks |-> "idle"]
    /\ fkind = [k \in LiveTasks |-> "none"]
    /\ fid = [k \in LiveTasks |-> NoId]
    /\ fwake = [k \in LiveTasks |-> 0]
    /\ fseq = 0
    /\ open = {}
    /\ fleft = MaxLiveCalls

\* d ms pass.
FElapse(d) ==
    /\ pl' = ElapseBucket(pl, d)
    /\ tl' = [ElapseBucket(tl, d) EXCEPT !.orders = ElapseOrders(tl.orders, d)]
    /\ fwake' = [k \in DOMAIN fwake |-> Max(fwake[k] - d, now)]
    /\ UNCHANGED <<now, enabled, fpc, fkind, fid, fseq, open, fleft>>
    /\ FacadeFrame

\* The callers make private calls and cancel orders.
LiveNext ==
    \/ \E d \in LiveSteps : FElapse(d)
    \/ \E k \in LiveTasks, kind \in PrivateKinds : FCallPrivate(k, kind)
    \/ \E k \in LiveTasks, id \in FacadeCancelIds : FCallCancelOrder(k, id)
    \/ \E k \in LiveTasks : FWake(k)
    \/ \E k \in LiveTasks : FInnerReturns(k)
    \/ \E k \in LiveTasks : FCancelOrderOk(k)

\* Time passes, the runtime wakes a task whose sleep is over, and the inner
\* client answers.
LiveFairness ==
    /\ WF_vars(\E d \in LiveSteps : FElapse(d))
    /\ \A k \in LiveTasks :
          /\ WF_vars(FWake(k))
          /\ WF_vars(FInnerReturns(k) \/ FCancelOrderOk(k) \/ FAddOrderOk(k))

(***************************************************************************)
(* rate_limit/ttl_cache.rs: a TtlCache called directly, as its unit tests  *)
(* call it: insert, get, remove and cleanup at instants around the ttl.    *)
(***************************************************************************)
NumCacheKeys == 2         \* keys the callers use

CacheKeys == 1..NumCacheKeys
CacheValues == {100, 200}
CacheTtls == {50, 60000}
CacheInstants == {0, 20, 50, 60, 70, 110}

NoCret == [op |-> "none", key |-> 0, result |-> None]

\* TtlCache::new
CacheInit ==
    /\ cache = TtlNew
    /\ cttl \in CacheTtls
    /\ cnow = 0
    /\ cret = NoCret
    /\ cins = <<>>

\* Time passes.
CAdvance(t) ==
    /\ t > cnow
    /\ cnow' = t
    /\ cret' = NoCret
    /\ UNCHANGED <<cache, cttl, cins>>
    /\ CacheFrame

\* cache.insert(key, value)
CInsert(k, v) ==
    /\ cache' = TtlInsert(cache, k, v, cnow)
    /\ cins' = [x \in (DOMAIN cins) \cup {k} |->
                   IF x = k THEN [value |-> v, t0 |-> cnow] ELSE cins[x]]
    /\ cret' = [op |-> "insert", key |-> k, result |-> None]
    /\ UNCHANGED <<cttl, cnow>>
    /\ CacheFrame

\* cache.get(&key)
CGet(k) ==
    /\ cret' = [op |-> "get", key |-> k,
                result |-> TtlGet(cache, k, cnow, cttl)]
    /\ UNCHANGED <<cache, cttl, cnow, cins>>
    /\ CacheFrame

\* cache.remove(&key)
CRemove(k) ==
    /\ cache' = TtlRemove(cache, k)
    /\ cins' = [x \in (DOMAIN cins) \ {k} |-> cins[x]]
    /\ cret' = [op |-> "remove", key |-> k, result |-> None]
    /\ UNCHANGED <<cttl, cnow>>
    /\ CacheFrame

\* cache.cleanup()
CCleanup ==
    /\ cache' = TtlCleanup(cache, cnow, cttl)
    /\ cache' # cache
    /\ cret' = [op |-> "cleanup", key |-> 0, result |-> None]
    /\ UNCHANGED <<cttl, cnow, cins>>
    /\ CacheFrame

CacheNext ==
    \/ \E t \in CacheInstants : CAdvance(t)
    \/ \E k \in CacheKeys, v \in CacheValues : CInsert(k, v)
    \/ \E k \in CacheKeys : CGet(k)
    \/ \E k \in CacheKeys : CRemove(k)
    \/ CCleanup

(***************************************************************************)
(* spot/ws/stream.rs: KrakenStream, and futures/ws/stream.rs:              *)
(* FuturesStream.  One session, its caller (subscribe, unsubscribe, close, *)
(* polling the event stream) and the socket's other end.  The two flavors  *)
(* differ in the ping and in the status of a subscription record, which    *)
(* only KrakenStream keeps.                                                *)
(***************************************************************************)
MaxStreamCalls == 2       \* subscribe/unsubscribe calls in one behaviour
MaxAttemptsCap == 2       \* the largest max_reconnect_attempts tried
MaxRunCounted == 3        \* Reconnecting events counted up to this
MaxPingsCounted == 2      \* unanswered pings counted up to this

Flavors == {"spot", "futures"}
NoSymbol == ""            \* SubscriptionResult.symbol is None
SymbolLists ==
    {<<"BTC/USD">>, <<"ETH/USD">>, <<"BTC/USD", "ETH/USD">>}

\* SubscribeParams (spot), or the arguments of subscribe_public /
\* subscribe_private (futures): the channel or feed, its symbols (<<>> for
\* none) and the scope.
SubParams ==
    {[channel |-> "ticker", symbol |-> l, scope |-> "public"] :
         l \in SymbolLists}
    \cup {[channel |-> "executions", symbol |-> <<>>, scope |-> "private"]}

\* subscription_key: format!("{}:{}", channel, symbols.join(",")).  No
\* channel holds a ':' and no symbol a ',', so the string is the pair of
\* the channel and the list of symbols.
subscription_key(params) == <<params.channel, params.symbol>>

\* futures subscription_key(feed, product_ids): the feed alone, or the feed,
\* ':' and the ids joined by ','.
futures_subscription_key(feed, product_ids) == <<feed, product_ids>>

KeyOf(p) ==
    IF flavor = "spot" THEN subscription_key(p)
    ELSE futures_subscription_key(p.channel, p.symbol)

\* subscription_key_from_result: format!("{}:{}", channel,
\* symbol.unwrap_or("")), the symbol being one string.
subscription_key_from_result(result) ==
    <<result.channel,
      IF result.symbol = NoSymbol THEN <<>> ELSE <<result.symbol>>>>

SubKeys == {<<p.channel, p.symbol>> : p \in SubParams}

SeqRange(q) == {q[i] : i \in DOMAIN q}

\* The confirmations the server sends for a subscribe frame: one for each
\* symbol, or one without symbol when the frame has none.
Expected(key) ==
    IF key[2] = <<>> THEN {NoSymbol} ELSE SeqRange(key[2])
Owed(key) == {<<key, sym>> : sym \in Expected(key)}

\* The frame send_subscribe / send_unsubscribe writes (futures: the
\* SubscribeRequest, PrivateSubscribeRequest or UnsubscribeRequest).
Frame(method, p) ==
    [method |-> method, channel |-> p.channel, symbol |-> p.symbol,
     scope |-> p.scope]

Put(f, k, v) == [x \in (DOMAIN f) \cup {k} |-> IF x = k THEN v ELSE f[x]]
Drop(f, k) == [x \in (DOMAIN f) \ {k} |-> f[x]]

Ev(kind, attempt) == [kind |-> kind, attempt |-> attempt]
NoEv == Ev("idle", 0)

\* should_reconnect
should_reconnect ==
    IF max_reconnect_attempts = Unbounded THEN TRUE
    ELSE reconnect_attempt < max_reconnect_attempts

\* What poll_next returns at a break: Reconnecting { attempt:
\* reconnect_attempt + 1 } while should_reconnect(), or else the arm's own
\* last word.
BreakEvent(otherwise) ==
    IF should_reconnect THEN Ev("Reconnecting", reconnect_attempt + 1)
    ELSE Ev(otherwise, 0)

\* connect_public / connect_private: the session as connect() builds it
\* (futures connect_private authenticates before it returns).
SessionInit(calls) ==
    /\ flavor \in Flavors
    /\ max_reconnect_attempts \in {Unbounded} \cup (0..MaxAttemptsCap)
    /\ private \in BOOLEAN
    /\ auth_state = (flavor = "futures" /\ private)
    /\ sink = TRUE
    /\ receiver = "live"
    /\ connected = TRUE
    /\ reconnecting = FALSE
    /\ reconnect_attempt = 0
    /\ last_ping = "none"
    /\ subscriptions = <<>>
    /\ ev = NoEv
    /\ closed = FALSE
    /\ rrun = 0
    /\ wire = <<>>
    /\ owed = {}
    /\ got = [k \in SubKeys |-> {}]
    /\ dropped = {}
    /\ rejected = {}
    /\ pings = 0
    /\ sleft = calls
    /\ rres = "none"
    /\ unsent = {}

StreamInit == SessionInit(MaxStreamCalls)

\* subscribe(params); futures: subscribe_public(feed, product_ids) or
\* subscribe_private(feed).  The record is stored, then the frame sent
\* (send_json fails with "Not connected" when there is no sink).
SSubscribe(p) ==
    /\ sleft > 0
    /\ p.scope = "private" => private
    /\ LET key == KeyOf(p)
           refused == flavor = "futures" /\ p.scope = "private" /\ ~auth_state
       IN IF refused
          THEN UNCHANGED <<subscriptions, wire, owed, got, dropped, rejected,
                           unsent>>
          ELSE /\ subscriptions' =
                     Put(subscriptions, key,
                         [params |-> p,
                          status |-> IF flavor = "spot" THEN "Pending"
                                     ELSE "Untracked"])
               /\ wire' = IF sink THEN Append(wire, Frame("subscribe", p))
                          ELSE wire
               /\ owed' = IF sink THEN owed \cup Owed(key) ELSE owed
               /\ got' = [got EXCEPT ![key] = {}]
               /\ dropped' = dropped \ {key}
               /\ rejected' = rejected \ {key}
               /\ unsent' = IF sink THEN unsent \ {key} ELSE unsent \cup {key}
    /\ sleft' = sleft - 1
    /\ ev' = NoEv
    /\ rres' = "none"
    /\ UNCHANGED <<flavor, max_reconnect_attempts, private, auth_state, sink,
                   receiver, connected, reconnecting, reconnect_attempt,
                   last_ping, closed, rrun, pings>>
    /\ StreamFrame

\* unsubscribe(params): the record is removed, then the frame sent.  (The
\* caller unsubscribes what it has subscribed.)
SUnsubscribe(p) ==
    /\ sleft > 0
    /\ LET key == KeyOf(p)
       IN /\ key \in DOMAIN subscriptions
          /\ subscriptions' = Drop(subscriptions, key)
          /\ wire' = IF sink THEN Append(wire, Frame("unsubscribe", p))
                     ELSE wire
          /\ owed' = owed \ Owed(key)
          /\ got' = [got EXCEPT ![key] = {}]
          /\ dropped' = dropped \cup {key}
          /\ rejected' = rejected \ {key}
          /\ unsent' = unsent \ {key}
    /\ sleft' = sleft - 1
    /\ ev' = NoEv
    /\ rres' = "none"
    /\ UNCHANGED <<flavor, max_reconnect_attempts, private, auth_state, sink,
                   receiver, connected, reconnecting, reconnect_attempt,
                   last_ping, closed, rrun, pings>>
    /\ StreamFrame

\* close(): a Close frame goes out on the sink, which is taken; the
\* receiver is dropped.
SClose ==
    /\ ~closed
    /\ sink' = FALSE
    /\ receiver' = "none"
    /\ connected' = FALSE
    /\ closed' = TRUE
    /\ owed' = {}
    /\ ev' = NoEv
    /\ rres' = "none"
    /\ UNCHANGED <<flavor, max_reconnect_attempts, private, auth_state,
                   reconnecting, reconnect_attempt, last_ping, subscriptions,
                   rrun, wire, got, dropped, rejected, pings, sleft, unsent>>
    /\ StreamFrame

\* config.pong_timeout passes with the ping unanswered.
SPongOverdue ==
    /\ flavor = "spot"
    /\ last_ping = "sent"
    /\ last_ping' = "overdue"
    /\ UNCHANGED <<flavor, max_reconnect_attempts, private, auth_state, sink,
                   receiver, connected, reconnecting, reconnect_attempt,
                   subscriptions, ev, closed, rrun, wire, owed, got, dropped,
                   rejected, pings, sleft, rres, unsent>>
    /\ StreamFrame

\* ping(): last_ping is set, then the frame sent (send_json fails with
\* "Not connected" when there is no sink).
SPing ==
    /\ flavor = "spot"
    /\ last_ping' = "sent"
    /\ pings' = IF sink THEN Min(pings + 1, MaxPingsCounted) ELSE pings
    /\ ev' = NoEv
    /\ rres' = "none"
    /\ UNCHANGED <<flavor, max_reconnect_attempts, private, auth_state, sink,
                   receiver, connected, reconnecting, reconnect_attempt,
                   subscriptions, closed, rrun, wire, owed, got, dropped,
                   rejected, sleft, unsent>>
    /\ StreamFrame

\* handle_response_message, the "subscribe" arm with success: the record
\* under the key made from the result becomes Active, when there is one.
\* (FuturesStream::handle_event_message keeps no status.)
handle_response_message(subs, result) ==
    LET key == subscription_key_from_result(result)
    IN IF flavor = "spot" /\ key \in DOMAIN subs
       THEN [subs EXCEPT ![key].status = "Active"]
       ELSE subs

\* A confirmation of (channel, symbol) counts for every record of that
\* channel that asked for the symbol.
Confirm(g, channel, symbol) ==
    [k \in DOMAIN g |->
        IF /\ k \in DOMAIN subscriptions
           /\ k[1] = channel
           /\ symbol \in Expected(k)
        THEN g[k] \cup {symbol} ELSE g[k]]

NoKey == <<"", <<>>>>
Yield(kind, key, symbol) == [kind |-> kind, key |-> key, symbol |-> symbol]

\* What the receiver can hand to poll_next: of a live socket a frame, an
\* error, the end of the stream or nothing yet; of one that has ended, the
\* end again or nothing.
PollYields ==
    IF receiver = "live"
    THEN {Yield(k, NoKey, NoSymbol) :
              k \in {"Pending", "Close", "Err", "None", "Data"}
                    \cup (IF flavor = "spot" /\ pings > 0
                          THEN {"Pong"} ELSE {})}
         \cup {Yield(k, o[1], o[2]) :
                   k \in {"Subscribed", "SubscribeError"}, o \in owed}
    ELSE IF receiver = "ended"
    THEN {Yield("Pending", NoKey, NoSymbol), Yield("None", NoKey, NoSymbol)}
    ELSE {Yield("Pending", NoKey, NoSymbol)}

\* Everything a receiver can hand over at some time.
PollInputs ==
    {Yield(k, NoKey, NoSymbol) :
         k \in {"Pending", "Close", "Err", "None", "Data", "Pong"}}
    \cup {Yield(k, o[1], o[2]) :
              k \in {"Subscribed", "SubscribeError"},
              o \in UNION {Owed(key) : key \in SubKeys}}

\* poll_next: the ping tick and the health check (KrakenStream only), then
\* the receiver, or the `else if` arm when there is none.
poll_next(tick, y) ==
    LET pinged == flavor = "spot" /\ tick /\ connected /\ last_ping = "none"
        lp == IF pinged THEN "sent" ELSE last_ping
        \* the spawned task writes the ping to the sink
        np == IF pinged /\ sink THEN Min(pings + 1, MaxPingsCounted)
              ELSE pings
        \* check_connection_health
        healthy == ~(flavor = "spot" /\ lp = "overdue")
        same == [connected |-> connected, receiver |-> receiver,
                 last_ping |-> lp, subscriptions |-> subscriptions,
                 owed |-> owed, got |-> got, rejected |-> rejected,
                 pings |-> np, ev |-> Ev("Pending", 0)]
        broken(e) == [same EXCEPT !.connected = FALSE, !.receiver = "ended",
                                  !.ev = e]
    IN IF ~healthy /\ connected
       THEN [same EXCEPT !.connected = FALSE,
                         !.ev = BreakEvent("Disconnected")]
       ELSE IF receiver # "none"
       THEN CASE y.kind = "Subscribed" ->
                     [same EXCEPT
                         !.subscriptions =
                             handle_response_message(subscriptions,
                                 [channel |-> y.key[1], symbol |-> y.symbol]),
                         !.owed = owed \ {<<y.key, y.symbol>>},
                         !.got = Confirm(got, y.key[1], y.symbol),
                         !.ev = Ev("Subscribed", 0)]
              \* the "subscribe" arm without success: the Error event, and
              \* nothing else (futures: the "error" arm)
              [] y.kind = "SubscribeError" ->
                     [same EXCEPT
                         !.owed = owed \ {<<y.key, y.symbol>>},
                         !.rejected = rejected \cup {y.key},
                         !.ev = Ev("Error", 0)]
              [] y.kind = "Pong" ->
                     [same EXCEPT !.last_ping = "none",
                                  !.pings = Max(np - 1, 0),
                                  !.ev = Ev("Pong", 0)]
              [] y.kind = "Data" -> [same EXCEPT !.ev = Ev("Data", 0)]
              [] y.kind = "Close" -> broken(BreakEvent("Disconnected"))
              [] y.kind = "Err" -> broken(BreakEvent("Err"))
              [] y.kind = "None" -> broken(BreakEvent("End"))
              [] OTHER -> same
       ELSE IF ~reconnecting /\ should_reconnect
       THEN [same EXCEPT !.ev = Ev("Reconnecting", reconnect_attempt + 1)]
       ELSE same

\* The consumer polls the event stream once.
SPoll(tick, y) ==
    /\ y \in PollYields
    /\ LET r == poll_next(tick, y)
       IN /\ connected' = r.connected
          /\ receiver' = r.receiver
          /\ last_ping' = r.last_ping
          /\ subscriptions' = r.subscriptions
          /\ owed' = r.owed
          /\ got' = r.got
          /\ rejected' = r.rejected
          /\ pings' = r.pings
          /\ ev' = r.ev
          /\ rrun' = IF r.ev.kind = "Reconnecting"
                     THEN Min(rrun + 1, MaxRunCounted) ELSE rrun
    /\ rres' = "none"
    /\ UNCHANGED <<flavor, max_reconnect_attempts, private, auth_state, sink,
                   reconnecting, reconnect_attempt, closed, wire, dropped,
                   sleft, unsent>>
    /\ StreamFrame

StreamNext ==
    \/ \E p \in SubParams : SSubscribe(p)
    \/ \E p \in SubParams : SUnsubscribe(p)
    \/ SClose
    \/ SPongOverdue
    \/ SPing
    \/ \E tick \in BOOLEAN, y \in PollInputs : SPoll(tick, y)

\* The consumer keeps polling the stream.
StreamFairness ==
    WF_vars(\E tick \in BOOLEAN, y \in PollInputs : SPoll(tick, y))

(***************************************************************************)
(* reconnect() and restore_subscriptions(), called on a session as their   *)
(* own module could call them: no path of poll_next does.                  *)
(***************************************************************************)
MaxRestoreCalls == 4      \* subscribe/unsubscribe calls before reconnect()
MaxFailedReconnects == 2  \* reconnect() calls the server refuses in a row

\* The orders in which a HashMap can hand out the keys S.
Perms(S) ==
    {f \in [1..Cardinality(S) -> S] :
        \A i, j \in 1..Cardinality(S) : i # j => f[i] # f[j]}

Orders == UNION {Perms(S) : S \in SUBSET SubKeys}

\* A plausible slip: only the confirmed (Active) records are sent again.
RestoreSubscriptionsActiveOnly(subs, auth, ord, fail) ==
    LET active == SelectSeq(ord, LAMBDA k : subs[k].status = "Active")
    IN [frames |-> [i \in 1..Len(active) |->
                        Frame("subscribe", subs[active[i]].params)],
        ok |-> fail = 0]

\* A plausible slip: only the public records are sent again.
RestoreSubscriptionsPublicOnly(subs, auth, ord, fail) ==
    LET pub == SelectSeq(ord, LAMBDA k : subs[k].params.scope = "public")
    IN [frames |-> [i \in 1..Len(pub) |->
                        Frame("subscribe", subs[pub[i]].params)],
        ok |-> fail = 0]

\* restore_subscriptions: one send for each record, in the map's order
\* `ord`, until a send fails (the fail-th, 0 for none) or, in
\* FuturesStream, a private record finds no auth_state.
restore_subscriptions(subs, auth, ord, fail) ==
    LET stops == {i \in 1..Len(ord) :
                     \/ i = fail
                     \/ /\ flavor = "futures"
                        /\ subs[ord[i]].params.scope = "private"
                        /\ ~auth}
        sent == IF stops = {} THEN Len(ord)
                ELSE (CHOOSE i \in stops : \A j \in stops : i <= j) - 1
    IN [frames |-> [i \in 1..sent |->
                        Frame("subscribe", subs[ord[i]].params)],
        ok |-> stops = {}]

\* reconnect(): the old socket is dropped, the backoff slept, a new socket
\* opened (the server accepts or not), FuturesStream authenticates again
\* when it has credentials, and the subscriptions are restored.
RReconnect(accept, auth_ok, ord, fail) ==
    /\ ~closed
    /\ reconnect_attempt < MaxFailedReconnects
    /\ ord \in Perms(DOMAIN subscriptions)
    /\ fail \in 0..Len(ord)
    \* (inputs that are not looked at are fixed)
    /\ ~accept => auth_ok /\ fail = 0
    /\ ~(flavor = "futures" /\ private) => auth_ok
    /\ ~auth_ok => fail = 0
    /\ LET reauth == flavor = "futures" /\ private
           auth == auth_state \/ (reauth /\ auth_ok)
           r == restore_subscriptions(subscriptions, auth, ord, fail)
           sent == IF accept /\ (reauth => auth_ok) THEN r.frames ELSE <<>>
       IN /\ reconnect_attempt' = IF accept THEN 0 ELSE reconnect_attempt + 1
          /\ connected' = accept
          /\ reconnecting' = ~accept
          /\ sink' = accept
          /\ receiver' = IF accept THEN "live" ELSE "none"
          /\ auth_state' = IF accept THEN auth ELSE auth_state
          /\ wire' = sent
          /\ owed' = UNION {Owed(<<f.channel, f.symbol>>) : f \in SeqRange(sent)}
          /\ rres' = IF accept /\ (reauth => auth_ok) /\ r.ok
                     THEN "Ok" ELSE "Err"
          /\ rrun' = IF accept THEN 0 ELSE rrun
          \* the pings written to the old socket stay unanswered
          /\ pings' = IF accept THEN 0 ELSE pings
    /\ ev' = NoEv
    /\ UNCHANGED <<flavor, max_reconnect_attempts, private, last_ping,
                   subscriptions, closed, got, dropped, rejected,
                   sleft, unsent>>
    /\ StreamFrame

\* reconnect() does not look at max_reconnect_attempts.
RestoreInit ==
    SessionInit(MaxRestoreCalls) /\ max_reconnect_attempts = Unbounded

RestoreNext ==
    \/ \E p \in SubParams : SSubscribe(p)
    \/ \E p \in SubParams : SUnsubscribe(p)
    \/ \E accept \in BOOLEAN, auth_ok \in BOOLEAN,
          ord \in Orders, fail \in 0..Cardinality(SubKeys) :
          RReconnect(accept, auth_ok, ord, fail)

(***************************************************************************)
(* The specifications.  Each moves one subsystem and keeps the variables   *)
(* of the others at a quiet value.                                         *)
(***************************************************************************)
NonceQuiet == NonceInit

PenaltyQuiet == ageA = 0 /\ ageB = 0 /\ penA = -1 /\ penB = -1

LimiterQuiet ==
    /\ harness = "private"
    /\ now = 0
    /\ tier = "Starter"
    /\ pl = PrivateRateLimiterNew(RateLimitParams("Starter")[1],
                                  RateLimitParams("Starter")[2], 0)
    /\ tl = TradingRateLimiterNew(RateLimitParams("Starter")[1],
                                  RateLimitParams("Starter")[2], 0)
    /\ ret = NoRet
    /\ placed = <<>>

WindowQuiet ==
    /\ pubw = SlidingWindowNew(1000, 1)
    /\ obw = <<>>
    /\ wret = NoWret
    /\ wlog = <<>>
    /\ olog = <<>>

CacheQuiet ==
    /\ cache = TtlNew
    /\ cttl = 50
    /\ cnow = 0
    /\ cret = NoCret
    /\ cins = <<>>

NoCall == <<>>
CallQuiet ==
    /\ cpc = "idle"
    /\ carg = NoCall
    /\ cval = NoCall
CallFrame ==
    UNCHANGED <<nonceVars, penaltyVars, limiterVars, facadeVars, windowVars,
                cacheVars, streamVars, authVars, sinkVars>>

AuthQuiet ==
    /\ apc = "idle"
    /\ credentials = None
    /\ heard = <<>>
    /\ astate = None
    /\ asent = <<>>
    /\ feeds = {}
    /\ arefused = 0
    /\ aerr = "none"
    /\ aleft = 0
AuthFrame ==
    UNCHANGED <<nonceVars, penaltyVars, limiterVars, facadeVars, windowVars,
                cacheVars, streamVars, callVars, sinkVars>>

SinkQuiet ==
    /\ ksink = TRUE
    /\ kconnected = TRUE
    /\ klast_ping = FALSE
    /\ kholder = 0
    /\ kpc = <<>>
    /\ kframe = <<>>
    /\ ksocket = <<>>
    /\ kres = "none"
    /\ kleft = 0
SinkFrame ==
    UNCHANGED <<nonceVars, penaltyVars, limiterVars, facadeVars, windowVars,
                cacheVars, streamVars, callVars, authVars>>

StreamQuiet ==
    /\ flavor = "spot"
    /\ max_reconnect_attempts = Unbounded
    /\ private = FALSE
    /\ auth_state = FALSE
    /\ sink = TRUE
    /\ receiver = "live"
    /\ connected = TRUE
    /\ reconnecting = FALSE
    /\ reconnect_attempt = 0
    /\ last_ping = "none"
    /\ subscriptions = <<>>
    /\ ev = NoEv
    /\ closed = FALSE
    /\ rrun = 0
    /\ wire = <<>>
    /\ owed = {}
    /\ got = [k \in SubKeys |-> {}]
    /\ dropped = {}
    /\ rejected = {}
    /\ pings = 0
    /\ sleft = MaxStreamCalls
    /\ rres = "none"
    /\ unsent = {}

FacadeQuiet ==
    /\ enabled = TRUE
    /\ fpc = [k \in Tasks |-> "idle"]
    /\ fkind = [k \in Tasks |-> "none"]
    /\ fid = [k \in Tasks |-> NoId]
    /\ fwake = [k \in Tasks |-> 0]
    /\ fseq = 0
    /\ open = {}
    /\ fleft = Unbounded

SpecNonceInit ==
    /\ NonceInit /\ PenaltyQuiet /\ LimiterQuiet /\ FacadeQuiet
    /\ WindowQuiet /\ CacheQuiet /\ StreamQuiet /\ CallQuiet /\ AuthQuiet /\ SinkQuiet
SpecNonce == SpecNonceInit /\ [][NonceNext]_vars

SpecPenaltyInit ==
    /\ PenaltyInit /\ NonceQuiet /\ LimiterQuiet /\ FacadeQuiet
    /\ WindowQuiet /\ CacheQuiet /\ StreamQuiet /\ CallQuiet /\ AuthQuiet /\ SinkQuiet
SpecPenalty == SpecPenaltyInit /\ [][PenaltyNext]_vars

SpecLimiterInit ==
    /\ LimiterInit /\ NonceQuiet /\ PenaltyQuiet /\ FacadeQuiet
    /\ WindowQuiet /\ CacheQuiet /\ StreamQuiet /\ CallQuiet /\ AuthQuiet /\ SinkQuiet
SpecLimiter == SpecLimiterInit /\ [][LimiterNext]_vars

\* FacadeInit sets the limiters' variables too.
SpecFacadeInit ==
    /\ FacadeInit /\ NonceQuiet /\ PenaltyQuiet /\ WindowQuiet /\ CacheQuiet
    /\ StreamQuiet /\ CallQuiet /\ AuthQuiet /\ SinkQuiet
SpecFacade == SpecFacadeInit /\ [][FacadeNext]_vars

SpecFacadeLiveInit ==
    /\ LiveInit /\ NonceQuiet /\ PenaltyQuiet /\ WindowQuiet /\ CacheQuiet
    /\ StreamQuiet /\ CallQuiet /\ AuthQuiet /\ SinkQuiet
SpecFacadeLive == SpecFacadeLiveInit /\ [][LiveNext]_vars /\ LiveFairness

\* The window is driven on the limiters' clock; the limiters stay as built.
WindowRest ==
    /\ harness = "window"
    /\ tier = "Starter"
    /\ pl = PrivateRateLimiterNew(RateLimitParams(tier)[1],
                                  RateLimitParams(tier)[2], 0)
    /\ tl = TradingRateLimiterNew(RateLimitParams(tier)[1],
                                  RateLimitParams(tier)[2], 0)
    /\ ret = NoRet
    /\ placed = <<>>

SpecWindowInit ==
    /\ WindowInit /\ WindowRest /\ NonceQuiet /\ PenaltyQuiet /\ FacadeQuiet
    /\ CacheQuiet /\ StreamQuiet /\ CallQuiet /\ AuthQuiet /\ SinkQuiet
SpecWindow == SpecWindowInit /\ [][WindowNext]_vars

SpecPublicInit ==
    PublicInit /\ NonceQuiet /\ PenaltyQuiet /\ CacheQuiet /\ StreamQuiet /\ CallQuiet /\ AuthQuiet /\ SinkQuiet
SpecPublic == SpecPublicInit /\ [][PublicNext]_vars

SpecCacheInit ==
    /\ CacheInit /\ NonceQuiet /\ PenaltyQuiet /\ LimiterQuiet /\ FacadeQuiet
    /\ WindowQuiet /\ StreamQuiet /\ CallQuiet /\ AuthQuiet /\ SinkQuiet
SpecCache == SpecCacheInit /\ [][CacheNext]_vars

StreamRest ==
    /\ NonceQuiet /\ PenaltyQuiet /\ LimiterQuiet /\ FacadeQuiet
    /\ WindowQuiet /\ CacheQuiet /\ CallQuiet /\ AuthQuiet /\ SinkQuiet

CallRest ==
    /\ NonceQuiet /\ PenaltyQuiet /\ LimiterQuiet /\ FacadeQuiet
    /\ WindowQuiet /\ CacheQuiet /\ StreamQuiet /\ AuthQuiet /\ SinkQuiet
AuthRest ==
    /\ NonceQuiet /\ PenaltyQuiet /\ LimiterQuiet /\ FacadeQuiet
    /\ WindowQuiet /\ CacheQuiet /\ StreamQuiet /\ CallQuiet /\ SinkQuiet
SinkRest ==
    /\ NonceQuiet /\ PenaltyQuiet /\ LimiterQuiet /\ FacadeQuiet
    /\ WindowQuiet /\ CacheQuiet /\ StreamQuiet /\ CallQuiet /\ AuthQuiet

SpecStreamInit == StreamInit /\ StreamRest
SpecStream == SpecStreamInit /\ [][StreamNext]_vars

SpecStreamLive == SpecStreamInit /\ [][StreamNext]_vars /\ StreamFairness

SpecRestoreInit == RestoreInit /\ StreamRest
SpecRestore == SpecRestoreInit /\ [][RestoreNext]_vars

(***************************************************************************)
(* The sessions' frame parsers.  A text frame is described by what the     *)
(* parsers look at: whether it is JSON, the string under "method"/"event"  *)
(* and under "channel"/"feed" ("-" when absent or not a string), the bool  *)
(* under "success" (absent counts as false), whether "result" is present,  *)
(* and whether the payload deserializes into the struct of its arm.        *)
(***************************************************************************)
Some(v) == [some |-> TRUE, value |-> v]

SuccessMethods ==
    {"subscribe", "unsubscribe", "add_order", "cancel_order", "cancel_all",
     "edit_order"}
SpotMethods == {"-", "pong", "other_method"} \cup SuccessMethods
SpotChannels == {"-", "status", "heartbeat", "ticker"}
FuturesEvents ==
    {"-", "info", "alert", "subscribed", "unsubscribed", "error", "challenge",
     "other_event"}
TypedFeeds ==
    {"book", "book_snapshot", "ticker", "ticker_lite", "trade",
     "trade_snapshot", "open_orders", "open_orders_snapshot", "fills",
     "fills_snapshot", "open_positions", "open_positions_snapshot",
     "balances", "balances_snapshot"}
FuturesFeeds == {"-", "other_feed"} \cup TypedFeeds

TextFrames ==
    [flavor : {"spot"}, json : BOOLEAN, first : SpotMethods,
     second : SpotChannels, success : BOOLEAN, result : BOOLEAN,
     decodes : BOOLEAN]
    \cup [flavor : {"futures"}, json : BOOLEAN, first : FuturesEvents,
          second : FuturesFeeds, success : BOOLEAN, result : BOOLEAN,
          decodes : BOOLEAN]

\* The event of the success arms: OrderAdded for "add_order", and so on.
SuccessEvent(method) ==
    CASE method = "subscribe" -> "Subscribed"
      [] method = "unsubscribe" -> "Unsubscribed"
      [] method = "add_order" -> "OrderAdded"
      [] method = "cancel_order" -> "OrderCancelled"
      [] method = "cancel_all" -> "AllOrdersCancelled"
      [] method = "edit_order" -> "OrderEdited"

\* The event handle_response_message returns (its effect on the map and on
\* last_ping is in poll_next above).
handle_response_event(f) ==
    CASE f.first = "pong" ->
             IF f.decodes THEN Some("Pong") ELSE None
      [] f.first \in SuccessMethods ->
             IF f.success
             THEN IF f.result /\ f.decodes
                  THEN Some(SuccessEvent(f.first)) ELSE None
             ELSE Some("Error")
      [] OTHER -> Some("ChannelData")

handle_channel_message(f) ==
    CASE f.second = "status" ->
             IF f.decodes THEN Some("Status") ELSE None
      [] f.second = "heartbeat" ->
             IF f.decodes THEN Some("Heartbeat") ELSE None
      [] OTHER -> Some("ChannelData")

parse_message(f) ==
    IF ~f.json THEN None
    ELSE IF f.first # "-" THEN handle_response_event(f)
    ELSE IF f.second # "-" THEN handle_channel_message(f)
    ELSE Some("ChannelData")

handle_event_message(f) ==
    CASE f.first \in {"info", "alert"} ->
             IF f.decodes THEN Some("Info") ELSE None
      [] f.first = "subscribed" ->
             IF f.decodes THEN Some("Subscribed") ELSE None
      [] f.first = "unsubscribed" ->
             IF f.decodes THEN Some("Unsubscribed") ELSE None
      [] f.first = "error" ->
             IF f.decodes THEN Some("Error") ELSE None
      [] f.first = "challenge" -> None
      [] OTHER -> Some("Raw")

\* The typed event of a feed: "book" gives Book, "ticker" and "ticker_lite"
\* give Ticker, "fills" and "fills_snapshot" give Fills, and so on.
FeedEvent(feed) ==
    CASE feed = "book" -> "Book"
      [] feed = "book_snapshot" -> "BookSnapshot"
      [] feed \in {"ticker", "ticker_lite"} -> "Ticker"
      [] feed = "trade" -> "Trade"
      [] feed = "trade_snapshot" -> "TradesSnapshot"
      [] feed \in {"open_orders", "open_orders_snapshot"} -> "OpenOrders"
      [] feed \in {"fills", "fills_snapshot"} -> "Fills"
      [] feed \in {"open_positions", "open_positions_snapshot"} ->
             "OpenPositions"
      [] feed \in {"balances", "balances_snapshot"} -> "Balances"

handle_feed_message(f) ==
    IF f.second \in TypedFeeds
    THEN IF f.decodes THEN Some(FeedEvent(f.second)) ELSE None
    ELSE Some("Raw")

futures_parse_message(f) ==
    IF ~f.json THEN None
    ELSE IF f.first # "-" THEN handle_event_message(f)
    ELSE IF f.second # "-" THEN handle_feed_message(f)
    ELSE Some("Raw")

ParseInit ==
    /\ cpc = "call"
    /\ carg \in TextFrames
    /\ cval = NoCall

\* poll_next on a Text frame: the event of parse_message is yielded; with
\* None the frame is gone and the poll returns Pending.
SpotParse ==
    /\ cpc = "call" /\ carg.flavor = "spot"
    /\ cval' = parse_message(carg)
    /\ cpc' = "ret"
    /\ UNCHANGED carg
    /\ CallFrame

FuturesParse ==
    /\ cpc = "call" /\ carg.flavor = "futures"
    /\ cval' = futures_parse_message(carg)
    /\ cpc' = "ret"
    /\ UNCHANGED carg
    /\ CallFrame

ParseNext == SpotParse \/ FuturesParse

SpecParseInit == ParseInit /\ CallRest
SpecParse == SpecParseInit /\ [][ParseNext]_vars

(***************************************************************************)
(* Challenge authentication of the futures session.  Strings are sequences *)
(* of tokens; a digest, a MAC and an encoding are terms over their inputs, *)
(* so equal outputs mean equal inputs.                                     *)
(***************************************************************************)
MaxAuthSteps == 4         \* reads and subscribe calls of one session

Sha256(m) == <<"sha256(">> \o m \o <<")">>
HmacSha512(key, m) == <<"hmac-sha512(">> \o key \o <<",">> \o m \o <<")">>
Base64Encode(bytes) == <<"base64(">> \o bytes \o <<")">>
IsBase64(str) ==
    Len(str) >= 2 /\ str[1] = "base64(" /\ str[Len(str)] = ")"
Base64Decode(str) == SubSeq(str, 2, Len(str) - 1)

Ok(v) == [tag |-> "ok", value |-> v]
Err(e) == [tag |-> "err", value |-> <<e>>]
Continue == [tag |-> "continue", value |-> <<>>]

\* Two secrets that are base64 and one that is not.
Secrets == {Base64Encode(<<"k1">>), Base64Encode(<<"k2">>), <<"k3!">>}
CredentialsSet == [api_key : {<<"key">>}, api_secret : Secrets]
Challenges == {<<"c1">>, <<"c2">>}

sign_challenge(creds, challenge) ==
    IF ~IsBase64(creds.api_secret) THEN Err("Auth")
    ELSE Ok(Base64Encode(HmacSha512(Base64Decode(creds.api_secret),
                                    Sha256(challenge))))

\* What one read of wait_for_challenge can bring: a text frame with its
\* "event" and "message", text that is not JSON, a socket error, or nothing
\* within the 100 ms (or a frame that is not text).
InFrames ==
    [kind : {"challenge"},
     message : {None} \cup {Some(ch) : ch \in Challenges}]
    \cup [kind : {"error", "other_event", "no_event", "not_json",
                  "read_error", "nothing"},
          message : {None}]

WaitForChallengeDeaf(fr) ==
    CASE fr.kind = "not_json" -> Err("Json")
      [] fr.kind = "challenge" /\ fr.message.some -> Ok(fr.message.value)
      [] fr.kind = "read_error" -> Err("WebSocket")
      [] OTHER -> Continue

\* One iteration of wait_for_challenge's loop.
wait_for_challenge(fr) ==
    CASE fr.kind = "not_json" -> Err("Json")
      [] fr.kind = "challenge" /\ fr.message.some -> Ok(fr.message.value)
      [] fr.kind = "error" -> Err("WebSocketMsg")
      [] fr.kind = "read_error" -> Err("WebSocket")
      [] OTHER -> Continue

OutFrame(event, feed, original, signed, products, key) ==
    [event |-> event, feed |-> feed, original_challenge |-> original,
     signed_challenge |-> signed, product_ids |-> products, api_key |-> key]

PrivateFeeds == {"fills", "open_orders"}
ProductLists == {None, Some(<<"PI_XBTUSD">>)}

AuthInit ==
    /\ apc = "start"
    /\ credentials = None
    /\ heard = <<>>
    /\ astate = None
    /\ asent = <<>>
    /\ feeds = {}
    /\ arefused = 0
    /\ aerr = "none"
    /\ aleft = MaxAuthSteps

AConnectPublic ==
    /\ apc = "start"
    /\ apc' = "session"
    /\ UNCHANGED <<credentials, heard, astate, asent, feeds, arefused, aerr,
                   aleft>>
    /\ AuthFrame

\* connect_private up to the challenge request of authenticate().
AConnectPrivate(creds, send_ok) ==
    /\ apc = "start"
    /\ credentials' = Some(creds)
    /\ IF send_ok
       THEN /\ asent' = Append(asent, OutFrame("challenge", "-", <<>>, <<>>,
                                             None, creds.api_key))
            /\ apc' = "waiting"
            /\ aerr' = "none"
       ELSE /\ asent' = asent
            /\ apc' = "failed"
            /\ aerr' = "WebSocket"
    /\ UNCHANGED <<heard, astate, feeds, arefused, aleft>>
    /\ AuthFrame

\* One read of wait_for_challenge and, with a challenge, the rest of
\* authenticate().
AWait(fr) ==
    /\ apc = "waiting" /\ aleft > 0
    /\ aleft' = aleft - 1
    /\ heard' = IF fr.kind \in {"read_error", "nothing"} THEN heard
                ELSE Append(heard, fr)
    /\ LET w == wait_for_challenge(fr)
           signed == sign_challenge(credentials.value, w.value)
       IN CASE w.tag = "continue" -> UNCHANGED <<apc, astate, aerr>>
            [] w.tag = "err" ->
                   /\ apc' = "failed"
                   /\ aerr' = w.value[1]
                   /\ astate' = astate
            [] w.tag = "ok" /\ signed.tag = "err" ->
                   /\ apc' = "failed"
                   /\ aerr' = signed.value[1]
                   /\ astate' = astate
            [] w.tag = "ok" /\ signed.tag = "ok" ->
                   /\ apc' = "session"
                   /\ aerr' = "none"
                   /\ astate' = Some([challenge |-> w.value,
                                    signed_challenge |-> signed.value])
    /\ UNCHANGED <<credentials, asent, feeds, arefused>>
    /\ AuthFrame

\* The loop finds start.elapsed() >= timeout.
ADeadline ==
    /\ apc = "waiting"
    /\ apc' = "failed"
    /\ aerr' = "Timeout"
    /\ UNCHANGED <<credentials, heard, astate, asent, feeds, arefused, aleft>>
    /\ AuthFrame

\* subscribe_private (no products) and subscribe_private_with_products.
ASubscribePrivate(feed, products, send_ok) ==
    /\ apc = "session" /\ aleft > 0
    /\ aleft' = aleft - 1
    /\ IF ~astate.some
       THEN /\ arefused' = arefused + 1
            /\ UNCHANGED <<feeds, asent>>
       ELSE /\ feeds' = feeds \cup {<<feed, products>>}
            /\ asent' = IF send_ok
                       THEN Append(asent,
                                OutFrame("subscribe", feed,
                                         astate.value.challenge,
                                         astate.value.signed_challenge,
                                         products, <<>>))
                       ELSE asent
            /\ arefused' = arefused
    /\ UNCHANGED <<apc, credentials, heard, astate, aerr>>
    /\ AuthFrame

AuthNext ==
    \/ AConnectPublic
    \/ \E creds \in CredentialsSet, send_ok \in BOOLEAN :
          AConnectPrivate(creds, send_ok)
    \/ \E fr \in InFrames : AWait(fr)
    \/ ADeadline
    \/ \E feed \in PrivateFeeds, products \in ProductLists,
          send_ok \in BOOLEAN : ASubscribePrivate(feed, products, send_ok)

SpecAuthInit == AuthInit /\ AuthRest
SpecAuth == SpecAuthInit /\ [][AuthNext]_vars

(***************************************************************************)
(* The HTTP clients' response parsers.  A body is described by what serde  *)
(* looks at; strings are sequences of tokens, ":" being a token of its own *)
(* and "Rate limit" one token of a message.                                *)
(***************************************************************************)
MaxErrors == 2            \* entries of a body's error array

ErrorEntries ==
    {<<"EAPI", ":", "Rate limit", " exceeded">>,
     <<"EOrder", ":", "Rate limit", " exceeded">>,
     <<"EAPI", ":", "Rate limit", " reached">>,
     <<"EService", ":", "Rate limit", " exceeded">>,
     <<"EGeneral", ":", "Invalid arguments", ":", "volume">>,
     <<"Internal error">>}
ErrorArrays ==
    UNION {[1..n -> ErrorEntries] : n \in 0..MaxErrors}

\* error: the array, or None when the field is missing or no array of
\* strings; result: absent, null, a value of the endpoint's type, or a value
\* that does not deserialize into it.
SpotBodies ==
    [api : {"spot"}, json : BOOLEAN, http_ok : BOOLEAN,
     error : {None} \cup {Some(arr) : arr \in ErrorArrays},
     result : {"absent", "null", "value", "mismatch"}]

\* result: the string under "result"; error: absent, a string or something
\* else; server_time likewise; typed: the body deserializes into the
\* endpoint's response type.
FuturesBodies ==
    [api : {"futures"}, json : BOOLEAN, http_ok : BOOLEAN,
     result : {"absent", "error", "success", "not_string"},
     error : {"absent", "string", "not_string"},
     server_time : {"string_or_absent", "not_string"},
     typed : BOOLEAN]

Outcome(tag, code, message) ==
    [tag |-> tag, code |-> code, message |-> message]

\* e.splitn(2, ':')
FirstColon(e) ==
    IF \E i \in DOMAIN e : e[i] = ":"
    THEN CHOOSE i \in DOMAIN e : e[i] = ":" /\ \A j \in 1..(i - 1) : e[j] # ":"
    ELSE 0

FromErrorArrayLast(errors) ==
    LET e == errors[Len(errors)]
        at == FirstColon(e)
    IN IF at > 0
       THEN [code |-> SubSeq(e, 1, at - 1),
             message |-> SubSeq(e, at + 1, Len(e))]
       ELSE [code |-> <<"Unknown">>, message |-> e]

\* ApiError::from_error_array on a non-empty array
from_error_array(errors) ==
    LET e == errors[1]
        at == FirstColon(e)
    IN IF at > 0
       THEN [code |-> SubSeq(e, 1, at - 1),
             message |-> SubSeq(e, at + 1, Len(e))]
       ELSE [code |-> <<"Unknown">>, message |-> e]

is_rate_limit(api_error) ==
    /\ api_error.code \in {<<"EAPI">>, <<"EOrder">>}
    /\ \E i \in DOMAIN api_error.message :
           api_error.message[i] = "Rate limit"

parse_response(body) ==
    IF ~body.json \/ ~body.error.some \/ body.result = "mismatch"
    THEN Outcome("InvalidResponse", <<>>, <<>>)
    ELSE IF body.error.value # <<>>
    THEN LET api_error == from_error_array(body.error.value)
         IN IF is_rate_limit(api_error)
            THEN Outcome("RateLimitExceeded", <<>>, <<>>)
            ELSE Outcome("Api", api_error.code, api_error.message)
    ELSE IF body.result = "value"
    THEN Outcome("Ok", <<>>, <<>>)
    ELSE Outcome("InvalidResponse", <<>>, <<>>)

parse_futures_response(body) ==
    LET is_error_response ==
            /\ body.json
            /\ body.result \in {"error", "success"}
            /\ body.error # "not_string"
            /\ body.server_time # "not_string"
    IN IF is_error_response /\ body.result = "error"
       THEN Outcome("Api", <<"EFutures">>,
                    IF body.error = "string" THEN <<"error">>
                    ELSE <<"Unknown error">>)
       ELSE IF body.json /\ body.typed
       THEN Outcome("Ok", <<>>, <<>>)
       ELSE Outcome("InvalidResponse", <<>>, <<>>)

EnvelopeInit ==
    /\ cpc = "call"
    /\ carg \in SpotBodies \cup FuturesBodies
    /\ cval = NoCall

SpotParseResponse ==
    /\ cpc = "call" /\ carg.api = "spot"
    /\ cval' = parse_response(carg)
    /\ cpc' = "ret"
    /\ UNCHANGED carg
    /\ CallFrame

FuturesParseResponse ==
    /\ cpc = "call" /\ carg.api = "futures"
    /\ cval' = parse_futures_response(carg)
    /\ cpc' = "ret"
    /\ UNCHANGED carg
    /\ CallFrame

EnvelopeNext == SpotParseResponse \/ FuturesParseResponse

SpecEnvelopeInit == EnvelopeInit /\ CallRest
SpecEnvelope == SpecEnvelopeInit /\ [][EnvelopeNext]_vars

(***************************************************************************)
(* The HTTP clients' operations: which request helper each one calls, and  *)
(* what the helper does with the client's credentials before anything is   *)
(* sent.                                                                   *)
(***************************************************************************)
SpotPublicOps ==
    {"get_server_time", "get_system_status", "get_assets", "get_asset_pairs",
     "get_ticker", "get_ohlc", "get_order_book", "get_recent_trades",
     "get_recent_spreads"}
SpotPrivateOps ==
    {"get_account_balance", "get_extended_balance", "get_trade_balance",
     "get_open_orders", "get_closed_orders", "query_orders",
     "get_trades_history", "get_open_positions", "get_ledgers",
     "get_trade_volume", "get_deposit_methods", "get_deposit_addresses",
     "get_deposit_status", "get_withdraw_methods", "get_withdraw_addresses",
     "get_withdraw_info", "withdraw_funds", "get_withdraw_status",
     "withdraw_cancel", "wallet_transfer", "earn_allocate",
     "earn_deallocate", "get_earn_allocation_status",
     "get_earn_deallocation_status", "list_earn_strategies",
     "list_earn_allocations", "add_order", "cancel_order",
     "cancel_all_orders", "get_websocket_token"}
FuturesPublicOps ==
    {"get_tickers", "get_ticker", "get_orderbook", "get_trade_history",
     "get_instruments"}
FuturesAccountOps == {"get_accounts", "get_open_positions", "get_open_orders"}
FuturesTradingOps ==
    {"send_order", "edit_order", "cancel_order", "cancel_order_by_cli_ord_id",
     "cancel_all_orders", "cancel_all_orders_for_symbol",
     "cancel_all_orders_after", "batch_order"}
FuturesPrivateOps ==
    FuturesAccountOps \cup {"get_fills"} \cup FuturesTradingOps

\* A call: the operation, for get_fills whether a request is given, whether
\* the client was built with credentials and whether their secret is
\* base64, and what the server answers.
ClientCalls ==
    [api : {"spot"}, op : SpotPublicOps \cup SpotPrivateOps,
     request : {FALSE}, credentials : BOOLEAN, secret_ok : BOOLEAN,
     reply : {"ok", "error"}]
    \cup [api : {"futures"},
          op : (FuturesPublicOps \cup FuturesPrivateOps) \ {"get_fills"},
          request : {FALSE}, credentials : BOOLEAN, secret_ok : BOOLEAN,
          reply : {"ok", "error"}]
    \cup [api : {"futures"}, op : {"get_fills"}, request : BOOLEAN,
          credentials : BOOLEAN, secret_ok : BOOLEAN,
          reply : {"ok", "error"}]

CallResult(tag, requests) == [tag |-> tag, requests |-> requests]
Replied(call) == IF call.reply = "ok" THEN "Ok" ELSE "Api"

\* public_get / public_get_with_params: the request goes out unsigned.
public_get(call) ==
    CallResult(Replied(call), <<[op |-> call.op, signed |-> FALSE]>>)

\* private_post / private_get: credentials, then the signature, then the
\* request.
private_post(call) ==
    IF ~call.credentials THEN CallResult("MissingCredentials", <<>>)
    ELSE IF ~call.secret_ok THEN CallResult("Auth", <<>>)
    ELSE CallResult(Replied(call), <<[op |-> call.op, signed |-> TRUE]>>)

SpotOperation(call) ==
    IF call.op \in SpotPrivateOps THEN private_post(call)
    ELSE public_get(call)

get_fills(call) ==
    IF call.request THEN public_get(call) ELSE private_post(call)

FuturesOperation(call) ==
    IF call.op = "get_fills" THEN get_fills(call)
    ELSE IF call.op \in FuturesAccountOps \cup FuturesTradingOps
    THEN private_post(call)
    ELSE public_get(call)

ClientInit ==
    /\ cpc = "call"
    /\ carg \in ClientCalls
    /\ cval = NoCall

SpotCall ==
    /\ cpc = "call" /\ carg.api = "spot"
    /\ cval' = SpotOperation(carg)
    /\ cpc' = "ret"
    /\ UNCHANGED carg
    /\ CallFrame

FuturesCall ==
    /\ cpc = "call" /\ carg.api = "futures"
    /\ cval' = FuturesOperation(carg)
    /\ cpc' = "ret"
    /\ UNCHANGED carg
    /\ CallFrame

ClientNext == SpotCall \/ FuturesCall

SpecClientInit == ClientInit /\ CallRest
SpecClient == SpecClientInit /\ [][ClientNext]_vars

(***************************************************************************)
(* Debug renderings.  Keys and secrets are strings of one or two tokens    *)
(* over separate alphabets; a rendering is the sequence of its pieces.     *)
(***************************************************************************)
MaxTokens == 2            \* tokens of an API key or of a secret

KeyStrings == UNION {[1..n -> {"k1", "k2"}] : n \in 1..MaxTokens}
SecretStrings == UNION {[1..n -> {"s1", "s2"}] : n \in 1..MaxTokens}
DebugHolders == {"Credentials", "SpotRestClient", "FuturesRestClient"}

\* hay.contains(needle)
Contains(hay, needle) ==
    \E at \in 0..(Len(hay) - Len(needle)) :
        \A i \in 1..Len(needle) : hay[at + i] = needle[i]

\* What #[derive(Debug)] would print.
CredentialsFmtDerived(creds) ==
    <<"Credentials { api_key: ", "\"">> \o creds.api_key
        \o <<"\"", ", api_secret: ", "\"">> \o creds.api_secret
        \o <<"\"", " }">>

\* impl Debug for Credentials
credentials_fmt(creds) ==
    <<"Credentials { api_key: ", "\"">> \o creds.api_key
        \o <<"\"", ", api_secret: ", "\"", "[REDACTED]", "\"", " }">>

\* impl Debug for SpotRestClient / FuturesRestClient
client_fmt(name, creds) ==
    <<name, " { base_url: ", "\"", "https://api", "\"",
      ", has_credentials: ", IF creds.some THEN "true" ELSE "false", " }">>

\* Two holders that differ in the secret alone.
DebugPairs ==
    [holder : DebugHolders, api_key : KeyStrings,
     secret : SecretStrings, other_secret : SecretStrings]

DebugInit ==
    /\ cpc = "call"
    /\ carg \in DebugPairs
    /\ cval = NoCall

\* format!("{:?}", credentials) for both of the pair
DebugCredentials ==
    /\ cpc = "call" /\ carg.holder = "Credentials"
    /\ cval' = <<credentials_fmt([api_key |-> carg.api_key,
                                  api_secret |-> carg.secret]),
                 credentials_fmt([api_key |-> carg.api_key,
                                  api_secret |-> carg.other_secret])>>
    /\ cpc' = "ret"
    /\ UNCHANGED carg
    /\ CallFrame

\* format!("{:?}", client) for both clients built with them
DebugClient ==
    /\ cpc = "call" /\ carg.holder # "Credentials"
    /\ cval' = <<client_fmt(carg.holder,
                            Some([api_key |-> carg.api_key,
                                  api_secret |-> carg.secret])),
                 client_fmt(carg.holder,
                            Some([api_key |-> carg.api_key,
                                  api_secret |-> carg.other_secret]))>>
    /\ cpc' = "ret"
    /\ UNCHANGED carg
    /\ CallFrame

DebugNext == DebugCredentials \/ DebugClient

SpecDebugInit == DebugInit /\ CallRest
SpecDebug == SpecDebugInit /\ [][DebugNext]_vars

(***************************************************************************)
(* Request signatures, over the same terms as sign_challenge.              *)
(***************************************************************************)
Sha256Bytes == 32
HmacSha512Bytes == 64

\* The number of bytes of a digest or MAC term.
ByteLen(term) ==
    CASE term[1] = "sha256(" -> Sha256Bytes
      [] term[1] = "hmac-sha512(" -> HmacSha512Bytes

Digits == <<"0", "1", "2", "3", "4", "5", "6", "7", "8", "9">>
RECURSIVE to_string(_)
\* nonce.to_string()
to_string(n) ==
    IF n < 10 THEN <<Digits[n + 1]>>
    ELSE to_string(n \div 10) \o <<Digits[(n % 10) + 1]>>

SignNonces == {0, 7, 12, 120}
SignPaths == {<<"/0/private/Balance">>, <<"/api/v3/sendorder">>}
SignBodies == {<<>>, <<"nonce=12">>, <<"nonce=12", "&asset=ZUSD">>, <<"0">>}
SignInputs ==
    [api : {"spot", "futures"}, credentials : CredentialsSet,
     path : SignPaths, nonce : SignNonces, body : SignBodies]

\* sign_futures_request
sign_futures_request(creds, endpoint_path, nonce, post_data) ==
    IF ~IsBase64(creds.api_secret) THEN Err("Auth")
    ELSE LET secret_decoded == Base64Decode(creds.api_secret)
             message == post_data \o to_string(nonce) \o endpoint_path
             sha256_hash == Sha256(message)
         IN Ok(Base64Encode(HmacSha512(secret_decoded, sha256_hash)))

\* The path hashed with the body instead of prefixed to the digest.
SignRequestPathHashed(creds, url_path, nonce, post_data) ==
    IF ~IsBase64(creds.api_secret) THEN Err("Auth")
    ELSE Ok(Base64Encode(HmacSha512(
                Base64Decode(creds.api_secret),
                Sha256(to_string(nonce) \o post_data \o url_path))))

\* sign_request
sign_request(creds, url_path, nonce, post_data) ==
    IF ~IsBase64(creds.api_secret) THEN Err("Auth")
    ELSE LET secret_decoded == Base64Decode(creds.api_secret)
             sha256_hash == Sha256(to_string(nonce) \o post_data)
         IN Ok(Base64Encode(HmacSha512(secret_decoded,
                                       url_path \o sha256_hash)))

SignInit ==
    /\ cpc = "call"
    /\ carg \in SignInputs
    /\ cval = NoCall

SignSpot ==
    /\ cpc = "call" /\ carg.api = "spot"
    /\ cval' = sign_request(carg.credentials, carg.path, carg.nonce,
                            carg.body)
    /\ cpc' = "ret"
    /\ UNCHANGED carg
    /\ CallFrame

SignFutures ==
    /\ cpc = "call" /\ carg.api = "futures"
    /\ cval' = sign_futures_request(carg.credentials, carg.path, carg.nonce,
                                    carg.body)
    /\ cpc' = "ret"
    /\ UNCHANGED carg
    /\ CallFrame

SignNext == SignSpot \/ SignFutures

SpecSignInit == SignInit /\ CallRest
SpecSign == SpecSignInit /\ [][SignNext]_vars

(***************************************************************************)
(* LastAndData<T>.  A JSON object is the sequence of its entries in the    *)
(* order the deserializer visits them; a value is a string, a number,      *)
(* null, or a value of the shape of T.                                     *)
(***************************************************************************)
MaxEntries == 2           \* entries of a payload

Str(tokens) == [type |-> "string", s |-> tokens, n |-> 0]
Num(n) == [type |-> "number", s |-> <<>>, n |-> n]
Data(name) == [type |-> "data", s |-> <<name>>, n |-> 0]
Null == [type |-> "null", s |-> <<>>, n |-> 0]

LastStrings == {<<"1", "2", "0">>, <<"TX-1">>}
DataValues == {Data("a"), Data("b")}
JsonValues ==
    {Str(str) : str \in LastStrings} \cup {Num(7), Num(120), Null}
        \cup DataValues
JsonEntries == [key : {"last", "XBTUSD", "count"}, value : JsonValues]
Payloads == UNION {[1..n -> JsonEntries] : n \in 0..MaxEntries}
LastAndDataValues == [last : LastStrings, data : DataValues]

LastValueStringOnly(value) ==
    IF value.type = "string" THEN Ok(value.s) ELSE Err("custom")

\* The match on the value under "last".
last_value(value) ==
    CASE value.type = "string" -> Ok(value.s)
      [] value.type = "number" -> Ok(to_string(value.n))
      [] OTHER -> Err("custom")

\* map.next_value::<T>()
data_value(value) ==
    IF value.type = "data" THEN Ok(value) ELSE Err("invalid type")

RECURSIVE visit_map(_, _, _, _)
\* The loop over the object's entries from entry i on, then the two
\* ok_or_else.
visit_map(entries, i, last, data) ==
    IF i > Len(entries)
    THEN IF ~last.some THEN Err("missing field last")
         ELSE IF ~data.some THEN Err("missing data field")
         ELSE Ok([last |-> last.value, data |-> data.value])
    ELSE IF entries[i].key = "last"
    THEN LET l == last_value(entries[i].value)
         IN IF l.tag = "err" THEN l
            ELSE visit_map(entries, i + 1, Some(l.value), data)
    ELSE LET dv == data_value(entries[i].value)
         IN IF dv.tag = "err" THEN dv
            ELSE visit_map(entries, i + 1, last, Some(dv.value))

deserialize(entries) == visit_map(entries, 1, None, None)

serialize(value) ==
    <<[key |-> "data", value |-> value.data],
      [key |-> "last", value |-> Str(value.last)]>>

LastAndDataInit ==
    /\ cpc = "call"
    /\ carg \in [kind : {"payload"}, entries : Payloads,
                 value : {[last |-> <<>>, data |-> Null]}]
            \cup [kind : {"value"}, entries : {<<>>},
                  value : LastAndDataValues]
    /\ cval = NoCall

\* serde_json::from_str::<LastAndData<T>>(payload)
Deserialize ==
    /\ cpc = "call" /\ carg.kind = "payload"
    /\ cval' = deserialize(carg.entries)
    /\ cpc' = "ret"
    /\ UNCHANGED carg
    /\ CallFrame

\* from_str(&to_string(&value))
RoundTrip ==
    /\ cpc = "call" /\ carg.kind = "value"
    /\ cval' = deserialize(serialize(carg.value))
    /\ cpc' = "ret"
    /\ UNCHANGED carg
    /\ CallFrame

LastAndDataNext == Deserialize \/ RoundTrip

SpecLastAndDataInit == LastAndDataInit /\ CallRest
SpecLastAndData == SpecLastAndDataInit /\ [][LastAndDataNext]_vars

(***************************************************************************)
(* rate_limit/client.rs: a facade call dropped while it sleeps.  The wait  *)
(* loops hold no guard across `tokio::time::sleep(wait_time).await` (the   *)
(* MutexGuard is dropped before it), and nothing in them implements Drop:  *)
(* dropping the future at that await point ends the call and runs no code. *)
(***************************************************************************)
FDrop(k) ==
    /\ fpc[k] = "sleep"
    /\ Returned(k)
    /\ UNCHANGED <<now, pl, tl, enabled, fwake, fseq, open, fleft>>
    /\ FacadeFrame

FacadeDropNext ==
    \/ \E t \in FacadeInstants : FAdvance(t)
    \/ \E k \in Tasks, kind \in PrivateKinds : FCallPrivate(k, kind)
    \/ \E k \in Tasks : FCallAddOrder(k)
    \/ \E k \in Tasks, id \in FacadeCancelIds : FCallCancelOrder(k, id)
    \/ \E k \in Tasks : FWake(k)
    \/ \E k \in Tasks : FInnerReturns(k)
    \/ \E k \in Tasks : FCancelOrderOk(k)
    \/ \E k \in Tasks : FAddOrderOk(k)
    \/ \E k \in Tasks : FDrop(k)

SpecFacadeDrop == SpecFacadeInit /\ [][FacadeDropNext]_vars

(***************************************************************************)
(* rate_limit/client.rs, rate_limit/trading.rs: update() and               *)
(* update_counter() run several times over one interval with no charge in  *)
(* between.  A bucket of one tier holds `counter` at instant 0 and is      *)
(* updated at the end of each stretch of `splits` (milliseconds).  For the *)
(* stretches and rates used the f64 product elapsed_secs * decay_rate is   *)
(* either exact or at least 0.25 away from the next integer, so its        *)
(* truncation is the integer quotient of DecayAmount.                      *)
(***************************************************************************)
MaxSplits == 3            \* update() calls over one interval: up to this

DecayStretches == {10, 250, 500}
DecayCounters == {0, 100, 800}

DecaySplits ==
    UNION {[1..n -> DecayStretches] : n \in 1..MaxSplits}

RECURSIVE SumOf(_)
SumOf(s) == IF s = <<>> THEN 0 ELSE s[1] + SumOf(Tail(s))

\* update() at the end of every stretch, one after the other.
RECURSIVE PrivateUpdateEach(_, _)
PrivateUpdateEach(l, splits) ==
    IF splits = <<>> THEN l
    ELSE PrivateUpdateEach(PrivateUpdate(l, l.last_update + splits[1]),
                           Tail(splits))

\* update_counter() at the end of every stretch, one after the other.
RECURSIVE UpdateCounterEach(_, _)
UpdateCounterEach(l, splits) ==
    IF splits = <<>> THEN l
    ELSE UpdateCounterEach(update_counter(l, l.last_update + splits[1]),
                           Tail(splits))

DecayInit ==
    /\ cpc = "call"
    /\ carg \in [bucket : {"private", "trading"}, tier : TierNames,
                 counter : DecayCounters, splits : DecaySplits]
    /\ cval = NoCall

\* A PrivateRateLimiter of the tier, holding carg.counter, polled.
PrivatePolled ==
    /\ cpc = "call" /\ carg.bucket = "private"
    /\ LET l == [PrivateRateLimiterNew(RateLimitParams(carg.tier)[1],
                                       RateLimitParams(carg.tier)[2], 0)
                    EXCEPT !.counter = carg.counter]
       IN cval' = PrivateUpdateEach(l, carg.splits)
    /\ cpc' = "ret"
    /\ UNCHANGED carg
    /\ CallFrame

\* A TradingRateLimiter of the tier, holding carg.counter, polled.
TradingPolled ==
    /\ cpc = "call" /\ carg.bucket = "trading"
    /\ LET l == [TradingRateLimiterNew(RateLimitParams(carg.tier)[1],
                                       RateLimitParams(carg.tier)[2], 0)
                    EXCEPT !.counter = carg.counter]
       IN cval' = UpdateCounterEach(l, carg.splits)
    /\ cpc' = "ret"
    /\ UNCHANGED carg
    /\ CallFrame

DecayNext == PrivatePolled \/ TradingPolled

SpecDecayInit == DecayInit /\ CallRest
SpecDecay == SpecDecayInit /\ [][DecayNext]_vars

(***************************************************************************)
(* rate_limit/ttl_cache.rs: every read of a TtlCache, called directly as   *)
(* the unit tests call them.  A result is None or Some of a value, an age, *)
(* a timestamp or a count (field `value`).                                 *)
(***************************************************************************)
\* get_mut: Some(&mut value) only when `timestamp.elapsed() < ttl`.
TtlGetMut(c, k, t, ttl) ==
    IF k \in DOMAIN c /\ t - c[k].timestamp < ttl
    THEN [some |-> TRUE, value |-> c[k].value]
    ELSE None

\* get_timestamp: Some(*timestamp) only when not expired.
TtlGetTimestamp(c, k, t, ttl) ==
    IF k \in DOMAIN c /\ t - c[k].timestamp < ttl
    THEN [some |-> TRUE, value |-> c[k].timestamp]
    ELSE None

\* A plausible slip: get_age without the expiry test.
TtlGetAgeNoExpiry(c, k, t, ttl) ==
    IF k \in DOMAIN c
    THEN [some |-> TRUE, value |-> t - c[k].timestamp]
    ELSE None

\* get_age: Some(age) only when `age < self.ttl`.
TtlGetAge(c, k, t, ttl) ==
    LET age == t - c[k].timestamp
    IN IF k \in DOMAIN c /\ age < ttl
       THEN [some |-> TRUE, value |-> age]
       ELSE None

\* remove: the value `self.cache.remove(key)` took out of the map, if it
\* had not expired.
TtlRemoveResult(c, k, t, ttl) ==
    IF k \in DOMAIN c /\ t - c[k].timestamp < ttl
    THEN [some |-> TRUE, value |-> c[k].value]
    ELSE None

\* len: every entry of the map, expired ones too.
TtlLen(c) == Cardinality(DOMAIN c)

Count(n) == [some |-> TRUE, value |-> n]
Flag(b) == [some |-> b]

CacheReadOps ==
    {"get", "get_mut", "contains", "get_age", "get_timestamp",
     "active_count", "len"}

\* What each read returns on cache c at instant t.
CacheRead(op, c, k, t, ttl) ==
    CASE op = "get" -> TtlGet(c, k, t, ttl)
      [] op = "get_mut" -> TtlGetMut(c, k, t, ttl)
      [] op = "contains" -> Flag(TtlContains(c, k, t, ttl))
      [] op = "get_age" -> TtlGetAge(c, k, t, ttl)
      [] op = "get_timestamp" -> TtlGetTimestamp(c, k, t, ttl)
      [] op = "active_count" -> Count(TtlActiveCount(c, t, ttl))
      [] op = "len" -> Count(TtlLen(c))

\* cache.get_mut(&key), .contains(&key), .get_age(&key),
\* .get_timestamp(&key), .active_count(), .len()
CRead(op, k) ==
    /\ op # "get"
    /\ op \in {"active_count", "len"} => k = 1
    /\ cret' = [op |-> op, key |-> k,
                result |-> CacheRead(op, cache, k, cnow, cttl)]
    /\ UNCHANGED <<cache, cttl, cnow, cins>>
    /\ CacheFrame

\* cache.remove(&key), with the value it returns
CRemoveValue(k) ==
    /\ cache' = TtlRemove(cache, k)
    /\ cins' = [x \in (DOMAIN cins) \ {k} |-> cins[x]]
    /\ cret' = [op |-> "remove", key |-> k,
                result |-> TtlRemoveResult(cache, k, cnow, cttl)]
    /\ UNCHANGED <<cttl, cnow>>
    /\ CacheFrame

\* cache.remove_with_age(&key)
CRemoveWithAge(k) ==
    /\ LET r == TtlRemoveWithAge(cache, k, cnow, cttl)
       IN /\ cache' = r.cache
          /\ cret' = [op |-> "remove_with_age", key |-> k, result |-> r.result]
    /\ cins' = [x \in (DOMAIN cins) \ {k} |-> cins[x]]
    /\ UNCHANGED <<cttl, cnow>>
    /\ CacheFrame

CacheReadsNext ==
    \/ \E t \in CacheInstants : CAdvance(t)
    \/ \E k \in CacheKeys, v \in CacheValues : CInsert(k, v)
    \/ \E k \in CacheKeys : CGet(k)
    \/ \E op \in CacheReadOps, k \in CacheKeys : CRead(op, k)
    \/ \E k \in CacheKeys : CRemoveValue(k)
    \/ \E k \in CacheKeys : CRemoveWithAge(k)
    \/ CCleanup

SpecCacheReads == SpecCacheInit /\ [][CacheReadsNext]_vars

(***************************************************************************)
(* spot/ws/stream.rs, futures/ws/stream.rs: backoff_duration.  The code    *)
(* computes in u64 with saturating_pow and saturating_mul.  Durations are  *)
(* in milliseconds and below 2^30; a u64 value of 2^30 or more (up to      *)
(* u64::MAX, which the saturating operations return on overflow) is        *)
(* written Beyond, and min(max) brings every such value back to max.       *)
(***************************************************************************)
MaxAttempt == 70          \* reconnect_attempt: 0 .. this (2^64 saturates)
U64Bits == 64
Beyond == 1073741824      \* 2^30

BackoffInitials == {0, 1, 500, 1000, 2000}
BackoffMaxes == {0, 1000, 60000, 120000}
BackoffAttempts == 0..MaxAttempt

RECURSIVE Pow2(_)
Pow2(n) == IF n = 0 THEN 1 ELSE 2 * Pow2(n - 1)

\* A plausible slip: wrapping_pow, which is 0 from 2^64 on.
Pow2Wrapping(attempt) ==
    IF attempt >= U64Bits THEN 0
    ELSE IF attempt >= 30 THEN Beyond ELSE Pow2(attempt)

\* 2u64.saturating_pow(attempt): u64::MAX from 2^64 on.
saturating_pow2(attempt) ==
    IF attempt >= U64Bits THEN Beyond
    ELSE IF attempt >= 30 THEN Beyond ELSE Pow2(attempt)

\* base.saturating_mul(multiplier)
saturating_mul(base, multiplier) ==
    IF base = 0 \/ multiplier = 0 THEN 0
    ELSE IF multiplier >= Beyond \/ multiplier > (Beyond - 1) \div base
         THEN Beyond
         ELSE base * multiplier

\* backoff_duration(&self), in milliseconds
backoff_duration(initial_backoff, max_backoff, attempt) ==
    LET base == initial_backoff
        max == max_backoff
        multiplier == saturating_pow2(attempt)
        backoff_ms == Min(saturating_mul(base, multiplier), max)
    IN backoff_ms

BackoffInit ==
    /\ cpc = "call"
    /\ carg \in [flavor : {"spot", "futures"}, initial : BackoffInitials,
                 max : BackoffMaxes, attempt : BackoffAttempts]
    /\ cval = NoCall

\* KrakenStream::backoff_duration
SpotBackoff ==
    /\ cpc = "call" /\ carg.flavor = "spot"
    /\ cval' = backoff_duration(carg.initial, carg.max, carg.attempt)
    /\ cpc' = "ret"
    /\ UNCHANGED carg
    /\ CallFrame

\* FuturesStream::backoff_duration
FuturesBackoff ==
    /\ cpc = "call" /\ carg.flavor = "futures"
    /\ cval' = backoff_duration(carg.initial, carg.max, carg.attempt)
    /\ cpc' = "ret"
    /\ UNCHANGED carg
    /\ CallFrame

BackoffNext == SpotBackoff \/ FuturesBackoff

SpecBackoffInit == BackoffInit /\ CallRest
SpecBackoff == SpecBackoffInit /\ [][BackoffNext]_vars

(***************************************************************************)
(* spot/ws/stream.rs, futures/ws/stream.rs: a subscribe call that ends     *)
(* after its record was stored without having written its frame - the      *)
(* send on the socket fails, or the caller drops the call at               *)
(* `sink.lock().await` or at `sink.send(..).await`.  (Without a sink the   *)
(* call of SSubscribe itself fails so, with "Not connected".)              *)
(***************************************************************************)
SSubscribeUnsent(p) ==
    /\ sleft > 0
    /\ sink
    /\ p.scope = "private" => private
    /\ ~(flavor = "futures" /\ p.scope = "private" /\ ~auth_state)
    /\ LET key == KeyOf(p)
       IN /\ subscriptions' =
                Put(subscriptions, key,
                    [params |-> p,
                     status |-> IF flavor = "spot" THEN "Pending"
                                ELSE "Untracked"])
          /\ got' = [got EXCEPT ![key] = {}]
          /\ dropped' = dropped \ {key}
          /\ rejected' = rejected \ {key}
          /\ unsent' = unsent \cup {key}
    /\ sleft' = sleft - 1
    /\ ev' = NoEv
    /\ rres' = "none"
    /\ UNCHANGED <<flavor, max_reconnect_attempts, private, auth_state, sink,
                   receiver, connected, reconnecting, reconnect_attempt,
                   last_ping, closed, rrun, pings, wire, owed>>
    /\ StreamFrame

RestoreUnsentNext ==
    \/ \E p \in SubParams : SSubscribe(p)
    \/ \E p \in SubParams : SSubscribeUnsent(p)
    \/ \E p \in SubParams : SUnsubscribe(p)
    \/ \E accept \in BOOLEAN, auth_ok \in BOOLEAN,
          ord \in Orders, fail \in 0..Cardinality(SubKeys) :
          RReconnect(accept, auth_ok, ord, fail)

SpecRestoreUnsent == SpecRestoreInit /\ [][RestoreUnsentNext]_vars

(***************************************************************************)
(* spot/ws/stream.rs: the outbound socket of a KrakenStream and the tasks  *)
(* that write to it.  The sink is an Arc<tokio::sync::Mutex<WsSink>>: the  *)
(* session's owner sends its commands through send_json and closes through *)
(* close(); poll_next, run by the owner too, spawns a detached task for    *)
(* each interval ping, which holds a clone of the Arc.  A frame reaches    *)
(* the socket in two parts, so that a second writer in between would show. *)
(***************************************************************************)
NumPingTasks == 2         \* ping tasks spawned and not yet finished
MaxSinkCalls == 4         \* calls and polls the owner makes

\* The task of the session's owner: the one that is not a ping task.
Caller == CHOOSE t \in 1..(1 + NumPingTasks) : t \notin 2..(1 + NumPingTasks)
PingTasks == 2..(1 + NumPingTasks)
SinkTasks == 1..(1 + NumPingTasks)
SinkCommands == {"subscribe", "cancel_order", "ping"}

Part(t, frame, part) == [task |-> t, frame |-> frame, part |-> part]

SinkInit ==
    /\ ksink = TRUE
    /\ kconnected = TRUE
    /\ klast_ping = FALSE
    /\ kholder = 0
    /\ kpc = [t \in SinkTasks |-> "idle"]
    /\ kframe = [t \in SinkTasks |-> "none"]
    /\ ksocket = <<>>
    /\ kres = "none"
    /\ kleft = MaxSinkCalls

\* subscribe, cancel_order, ping(): send_json.  Without a sink it fails
\* with "Not connected"; otherwise the frame is made and the caller waits
\* at `sink.lock().await`.  ping() sets last_ping first.
KCall(cmd) ==
    /\ kpc[Caller] = "idle"
    /\ kleft > 0
    /\ kleft' = kleft - 1
    /\ klast_ping' = IF cmd = "ping" THEN TRUE ELSE klast_ping
    /\ IF ksink
       THEN /\ kpc' = [kpc EXCEPT ![Caller] = "lock"]
            /\ kframe' = [kframe EXCEPT ![Caller] = cmd]
            /\ kres' = "none"
       ELSE /\ kres' = "Err"
            /\ UNCHANGED <<kpc, kframe>>
    /\ UNCHANGED <<ksink, kconnected, kholder, ksocket>>
    /\ SinkFrame

\* close(): `self.sink.take()`; with a sink the Close frame is sent under
\* the lock, without one the session is marked at once.
KClose ==
    /\ kpc[Caller] = "idle"
    /\ kleft > 0
    /\ kleft' = kleft - 1
    /\ ksink' = FALSE
    /\ IF ksink
       THEN /\ kpc' = [kpc EXCEPT ![Caller] = "lock"]
            /\ kframe' = [kframe EXCEPT ![Caller] = "Close"]
            /\ kres' = "none"
            /\ UNCHANGED kconnected
       ELSE /\ kconnected' = FALSE
            /\ kres' = "Ok"
            /\ UNCHANGED <<kpc, kframe>>
    /\ UNCHANGED <<klast_ping, kholder, ksocket>>
    /\ SinkFrame

\* A plausible slip: the ping written by poll_next itself, without the lock.
KPollTickUnlocked(t) ==
    /\ kpc[Caller] = "idle"
    /\ kleft > 0
    /\ kconnected /\ ~klast_ping
    /\ t \in PingTasks /\ kpc[t] = "idle"
    /\ kleft' = kleft - 1
    /\ klast_ping' = TRUE
    /\ IF ksink
       THEN /\ kpc' = [kpc EXCEPT ![t] = "held"]
            /\ kframe' = [kframe EXCEPT ![t] = "ping"]
       ELSE UNCHANGED <<kpc, kframe>>
    /\ UNCHANGED <<ksink, kconnected, kholder, ksocket, kres>>
    /\ SinkFrame

\* poll_next, the interval tick on a connected session with no ping
\* outstanding: last_ping is set and, with a sink, a task is spawned with a
\* clone of the Arc; it begins at `sink.lock().await`.
KPollTick(t) ==
    /\ kpc[Caller] = "idle"
    /\ kleft > 0
    /\ kconnected /\ ~klast_ping
    /\ t \in PingTasks /\ kpc[t] = "idle"
    /\ kleft' = kleft - 1
    /\ klast_ping' = TRUE
    /\ IF ksink
       THEN /\ kpc' = [kpc EXCEPT ![t] = "lock"]
            /\ kframe' = [kframe EXCEPT ![t] = "ping"]
       ELSE UNCHANGED <<kpc, kframe>>
    /\ UNCHANGED <<ksink, kconnected, kholder, ksocket, kres>>
    /\ SinkFrame

\* poll_next reads the pong of a ping that was written: last_ping = None.
KPong ==
    /\ kpc[Caller] = "idle"
    /\ kconnected /\ klast_ping
    /\ \E i \in 1..Len(ksocket) :
          ksocket[i].frame = "ping" /\ ksocket[i].part = "tail"
    /\ klast_ping' = FALSE
    /\ UNCHANGED <<ksink, kconnected, kholder, kpc, kframe, ksocket, kres, kleft>>
    /\ SinkFrame

\* `sink.lock().await` returns the guard: the Mutex is free.
KAcquire(t) ==
    /\ kpc[t] = "lock"
    /\ kholder = 0
    /\ kholder' = t
    /\ kpc' = [kpc EXCEPT ![t] = "held"]
    /\ UNCHANGED <<ksink, kconnected, klast_ping, kframe, ksocket, kres, kleft>>
    /\ SinkFrame

\* `sink.send(frame).await`, first part.  The session makes this call
\* whatever was written before, a Close frame included; what the socket
\* library does with a frame after a Close frame is not the session's
\* code: it may write it (here) or refuse it (KSendFails).
KWriteHead(t) ==
    /\ kpc[t] = "held"
    /\ ksocket' = Append(ksocket, Part(t, kframe[t], "head"))
    /\ kpc' = [kpc EXCEPT ![t] = "head"]
    /\ UNCHANGED <<ksink, kconnected, klast_ping, kholder, kframe, kres, kleft>>
    /\ SinkFrame

\* `sink.send(frame).await`, the rest of the frame.
KWriteTail(t) ==
    /\ kpc[t] = "head"
    /\ ksocket' = Append(ksocket, Part(t, kframe[t], "tail"))
    /\ kpc' = [kpc EXCEPT ![t] = "written"]
    /\ UNCHANGED <<ksink, kconnected, klast_ping, kholder, kframe, kres, kleft>>
    /\ SinkFrame

\* `sink.send(frame).await` returns Err: nothing was written.
KSendFails(t) ==
    /\ kpc[t] = "held"
    /\ kpc' = [kpc EXCEPT ![t] = "refused"]
    /\ UNCHANGED <<ksink, kconnected, klast_ping, kholder, kframe, ksocket, kres,
                   kleft>>
    /\ SinkFrame

\* The send is over and the guard dropped.  send_json returns the send's
\* result; close() ignores it, drops the receiver, clears connected and
\* returns Ok; the ping task ignores it and ends.
KRelease(t) ==
    /\ kpc[t] \in {"written", "refused"}
    /\ kholder' = IF kholder = t THEN 0 ELSE kholder
    /\ kpc' = [kpc EXCEPT ![t] = "idle"]
    /\ kframe' = [kframe EXCEPT ![t] = "none"]
    /\ kres' = IF t # Caller THEN kres
               ELSE IF kframe[t] = "Close" \/ kpc[t] = "written" THEN "Ok"
               ELSE "Err"
    /\ kconnected' = IF t = Caller /\ kframe[t] = "Close" THEN FALSE
                     ELSE kconnected
    /\ UNCHANGED <<ksink, klast_ping, ksocket, kleft>>
    /\ SinkFrame

SinkNext ==
    \/ \E cmd \in SinkCommands : KCall(cmd)
    \/ KClose
    \/ \E t \in PingTasks : KPollTick(t)
    \/ KPong
    \/ \E t \in SinkTasks : KAcquire(t)
    \/ \E t \in SinkTasks : KWriteHead(t)
    \/ \E t \in SinkTasks : KWriteTail(t)
    \/ \E t \in SinkTasks : KSendFails(t)
    \/ \E t \in SinkTasks : KRelease(t)

SpecSinkInit == SinkInit /\ SinkRest
SpecSink == SpecSinkInit /\ [][SinkNext]_vars

(***************************************************************************)
(* spot/ws/stream.rs: reconnect() on a session that pings.  The session is *)
(* polled, pinged and left without its pong, and reconnect() is called, as *)
(* in SpecRestore; no subscription is made.                                *)
(***************************************************************************)
ReconnectPingNext ==
    \/ SPongOverdue
    \/ SPing
    \/ \E tick \in BOOLEAN, y \in PollInputs : SPoll(tick, y)
    \/ \E accept \in BOOLEAN, auth_ok \in BOOLEAN,
          ord \in Orders, fail \in 0..Cardinality(SubKeys) :
          RReconnect(accept, auth_ok, ord, fail)

SpecReconnectPing == SpecRestoreInit /\ [][ReconnectPingNext]_vars

(***************************************************************************)
(* rate_limit/client.rs: wait_private and wait_trading_order of one caller *)
(* on a bucket another caller is waiting on too.  The caller's attempt at  *)
(* instant 0 is refused with wait w; the lock is dropped for the sleep, so *)
(* the other caller may make an attempt of its own at `probe` ms (0: it    *)
(* makes none); the caller's timer fires at the first millisecond at or    *)
(* after w and the loop tries again.  Instants are the millisecond at or   *)
(* just after which the call happens; for the rates of the tiers the       *)
(* product elapsed_secs * decay_rate is then at or above DecayAmount and   *)
(* below the next integer.                                                 *)
(***************************************************************************)
RetryHeadrooms == {0, 50, 99}     \* max_counter - counter at the first try
RetryProbes == {0, 10, 250, 1000} \* the other caller's attempt, ms

RetryInit ==
    /\ cpc = "call"
    /\ carg \in [bucket : {"private", "trading"}, tier : TierNames,
                 headroom : RetryHeadrooms, probe : RetryProbes]
    /\ cval = NoCall

\* The loop of one caller: try(l, t) at 0, at the probe and at the deadline.
RetryAfterWait(try(_, _), l, probe) ==
    LET first == try(l, 0)
        deadline == SleepDeadline(0, first.val)
        probed == ~first.ok /\ 0 < probe /\ probe < deadline
        mid == IF probed THEN try(first.lim, probe)
               ELSE [lim |-> first.lim, ok |-> FALSE, val |-> 0]
    IN [first |-> [ok |-> first.ok, val |-> first.val],
        probed |-> probed,
        charged |-> mid.ok,
        deadline |-> deadline,
        retry |-> IF first.ok THEN first
                  ELSE LET r == try(mid.lim, deadline)
                       IN [ok |-> r.ok, val |-> r.val]]

\* wait_private on a bucket of the tier with `headroom` left.
PrivateRetried ==
    /\ cpc = "call" /\ carg.bucket = "private"
    /\ LET n == PrivateRateLimiterNew(RateLimitParams(carg.tier)[1],
                                      RateLimitParams(carg.tier)[2], 0)
           l == [n EXCEPT !.counter = n.max_counter - carg.headroom]
       IN cval' = RetryAfterWait(PrivateTryAcquire, l, carg.probe)
    /\ cpc' = "ret"
    /\ UNCHANGED carg
    /\ CallFrame

\* wait_trading_order on a bucket of the tier with `headroom` left.
TradingRetried ==
    /\ cpc = "call" /\ carg.bucket = "trading"
    /\ LET n == TradingRateLimiterNew(RateLimitParams(carg.tier)[1],
                                      RateLimitParams(carg.tier)[2], 0)
           l == [n EXCEPT !.counter = n.max_counter - carg.headroom]
           Place(x, t) ==
               LET p == try_place_order(x, TempId(1),
                                        OrderTrackingInfoNew("pair", t), t)
               IN [lim |-> p.lim, ok |-> p.ok, val |-> p.val]
       IN cval' = RetryAfterWait(Place, l, carg.probe)
    /\ cpc' = "ret"
    /\ UNCHANGED carg
    /\ CallFrame

RetryNext == PrivateRetried \/ TradingRetried

SpecRetryInit == RetryInit /\ CallRest
SpecRetry == SpecRetryInit /\ [][RetryNext]_vars

(***************************************************************************)
(* rate_limit/trading.rs: the limiters the public constructors give, and a *)
(* refused try_place_order / try_cancel_order on them.  A wait of -1       *)
(* stands for the panic of Duration::from_secs_f64 on an infinite quotient *)
(* (WaitDuration), which aborts the call instead of returning Err.         *)
(***************************************************************************)
MaxFills == 2             \* orders placed before the call under test

ZeroRateMaxCounters == {0, 1, 2}
ZeroRateRates == {0, 5, 10, 330, 1000}    \* thousandths per second

\* #[derive(Default)] on PerPairTradingLimiter: no limiter yet, u32 and f64
\* at their defaults.
PerPairTradingLimiterDefault ==
    [limiters |-> <<>>, max_counter |-> 0, decay_rate |-> 0]

\* PerPairTradingLimiter::new
PerPairTradingLimiterNew(max_counter, rate_milli) ==
    [limiters |-> <<>>, max_counter |-> max_counter, decay_rate |-> rate_milli]

\* PerPairTradingLimiter::limiter_for: the pair's limiter, made on first use.
limiter_for(pp, pair, t) ==
    IF pair \in DOMAIN pp.limiters THEN pp.limiters[pair]
    ELSE TradingRateLimiterNew(pp.max_counter, pp.decay_rate, t)

\* try_place_order n times at instant t, stopping at the first not admitted.
RECURSIVE PlaceMany(_, _, _)
PlaceMany(l, n, t) ==
    IF n = 0 THEN [lim |-> l, ok |-> TRUE, val |-> 0]
    ELSE LET r == try_place_order(l, TempId(n),
                                  OrderTrackingInfoNew("pair", t), t)
         IN IF r.ok THEN PlaceMany(r.lim, n - 1, t) ELSE r

ZeroRateInit ==
    /\ cpc = "call"
    /\ carg \in [via : {"TradingRateLimiter::new",
                        "PerPairTradingLimiter::new",
                        "PerPairTradingLimiter::default"},
                 max_counter : ZeroRateMaxCounters,
                 rate_milli : ZeroRateRates,
                 fills : 0..MaxFills]
    /\ carg.via = "PerPairTradingLimiter::default"
           => (carg.max_counter = PerPairTradingLimiterDefault.max_counter
               /\ carg.rate_milli = PerPairTradingLimiterDefault.decay_rate)
    /\ cval = NoCall

\* The limiter the constructor named by carg.via hands out.
Obtained ==
    CASE carg.via = "TradingRateLimiter::new" ->
             TradingRateLimiterNew(carg.max_counter, carg.rate_milli, 0)
      [] carg.via = "PerPairTradingLimiter::new" ->
             limiter_for(PerPairTradingLimiterNew(carg.max_counter,
                                                  carg.rate_milli), "pair", 0)
      [] carg.via = "PerPairTradingLimiter::default" ->
             limiter_for(PerPairTradingLimiterDefault, "pair", 0)

\* carg.fills orders placed, then one more try_place_order.
ZPlace ==
    /\ cpc = "call"
    /\ LET f == PlaceMany(Obtained, carg.fills, 0)
           r == IF f.ok
                THEN try_place_order(f.lim, TempId(0),
                                     OrderTrackingInfoNew("pair", 0), 0)
                ELSE f
       IN cval' = [op |-> "place", ok |-> r.ok, val |-> r.val,
                   decay_rate |-> r.lim.decay_rate]
    /\ cpc' = "ret"
    /\ UNCHANGED carg
    /\ CallFrame

\* carg.fills orders placed, then try_cancel_order of the first of them.
ZCancel ==
    /\ cpc = "call"
    /\ LET f == PlaceMany(Obtained, carg.fills, 0)
           r == IF f.ok THEN try_cancel_order(f.lim, TempId(1), 0) ELSE f
       IN cval' = [op |-> IF f.ok THEN "cancel" ELSE "place",
                   ok |-> r.ok, val |-> r.val,
                   decay_rate |-> r.lim.decay_rate]
    /\ cpc' = "ret"
    /\ UNCHANGED carg
    /\ CallFrame

ZeroRateNext == ZPlace \/ ZCancel

SpecZeroRateInit == ZeroRateInit /\ CallRest
SpecZeroRate == SpecZeroRateInit /\ [][ZeroRateNext]_vars

(***************************************************************************)
(* C1: on one shared IncreasingNonce, under every interleaving and every   *)
(* sequence of clock readings, no two calls return the same value, and the *)
(* values one thread receives are strictly increasing in its call order.   *)
(***************************************************************************)
C1_NonceUniqueAndThreadOrdered ==
    \A i, j \in 1..Len(issued) :
        (i < j /\ issued[i].provider = issued[j].provider) =>
            /\ issued[i].nonce # issued[j].nonce
            /\ issued[i].thread = issued[j].thread =>
                   issued[j].nonce > issued[i].nonce

\* Two threads have drawn from the same provider, and one of them twice.
C1_Witness ==
    \E i, j, k \in 1..Len(issued) :
        /\ i < j /\ j < k
        /\ issued[i].provider = issued[j].provider
        /\ issued[j].provider = issued[k].provider
        /\ issued[i].thread # issued[j].thread
        /\ issued[k].thread \in {issued[i].thread, issued[j].thread}

(***************************************************************************)
(* C2 as claimed: the nonce source is process-wide, so of any two nonces   *)
(* handed out in the process (whichever client asked) the later is         *)
(* strictly greater.                                                       *)
(***************************************************************************)
C2_ProcessWideIncreasing ==
    \A i, j \in 1..Len(issued) :
        i < j => issued[j].nonce > issued[i].nonce

(***************************************************************************)
(* C2 as amended: each client built with the default provider owns its own *)
(* IncreasingNonce; of two nonces handed out by the same provider the      *)
(* later is strictly greater, and the provider's last_nonce is the         *)
(* greatest nonce it has handed out.                                       *)
(***************************************************************************)
C2_PerProviderIncreasing ==
    /\ \A i, j \in 1..Len(issued) :
           (i < j /\ issued[i].provider = issued[j].provider) =>
               issued[j].nonce > issued[i].nonce
    /\ \A i \in 1..Len(issued) :
           last_nonce[issued[i].provider] >= issued[i].nonce

\* Both clients have issued signed requests, the second client's nonce not
\* above the first client's earlier one.
C2_Witness ==
    \E i, j \in 1..Len(issued) :
        /\ i < j
        /\ issued[i].provider # issued[j].provider
        /\ issued[j].nonce <= issued[i].nonce

(***************************************************************************)
(* C3: in both token buckets the scaled counter stays within               *)
(* 0 <= counter <= max_counter, after any sequence of try_acquire /        *)
(* try_place_order / try_cancel_order calls and passages of time.          *)
(***************************************************************************)
C3_CounterWithinBounds ==
    /\ 0 <= pl.counter /\ pl.counter <= pl.max_counter
    /\ 0 <= tl.counter /\ tl.counter <= tl.max_counter

\* A cancellation penalty has filled the trading bucket exactly, after some
\* of its charge had decayed.
C3_Witness ==
    /\ ret.op = "try_cancel_order" /\ ret.ok /\ ret.val > 0
    /\ now > 0
    /\ tl.counter = tl.max_counter

(***************************************************************************)
(* C4: try_acquire applies the decay first; it admits and adds the cost    *)
(* iff counter + cost <= max_counter, and otherwise leaves the decayed     *)
(* counter uncharged and returns the wait (counter + cost - max) / decay,  *)
(* which is positive.  With max = 20 and decay = 1.0 and no time passing,  *)
(* a refusal comes only when 20 acquires have been admitted.               *)
(***************************************************************************)
C4_TryAcquireAdmitsIffFits ==
    /\ [][(ret'.op = "try_acquire" /\ now' = now) =>
            LET c == Max(pl.counter
                         - ((now - pl.last_update) * pl.decay_rate) \div 1000, 0)
                excess == c + 100 - pl.max_counter
            IN IF c + 100 <= pl.max_counter
               THEN ret'.ok /\ pl'.counter = c + 100
               ELSE /\ ~ret'.ok
                    /\ pl'.counter = c
                    /\ ret'.val > 0
                    \* val microseconds is excess / decay_rate seconds
                    /\ 2 * (ret'.val * pl.decay_rate - excess * 1000000)
                           <= pl.decay_rate
                    /\ 2 * (excess * 1000000 - ret'.val * pl.decay_rate)
                           <= pl.decay_rate]_vars
    /\ []((tier = "Pro" /\ now = 0 /\ ret.op = "try_acquire") =>
            /\ ret.ok => pl.counter \in {100 * k : k \in 1..20}
            /\ ~ret.ok => pl.counter = 20 * 100)

\* The 21st back-to-back acquire on a (20, 1.0) bucket has been refused.
C4_Witness ==
    /\ tier = "Pro" /\ now = 0
    /\ ret.op = "try_acquire" /\ ~ret.ok /\ ret.val > 0
    /\ pl.counter = 2000

(***************************************************************************)
(* C5: cancel_penalty(age) is the step function 8 / 6 / 5 / 4 / 2 / 0 on   *)
(* [0,5) [5,10) [10,15) [15,45) [45,90) [90,oo) seconds, and so it is      *)
(* non-increasing in the age.                                              *)
(***************************************************************************)
C5_PenaltyStepFunction ==
    LET table(a) == IF a < 5000 THEN 8
                    ELSE IF a < 10000 THEN 6
                    ELSE IF a < 15000 THEN 5
                    ELSE IF a < 45000 THEN 4
                    ELSE IF a < 90000 THEN 2
                    ELSE 0
    IN penA # -1 =>
          /\ penA = table(ageA)
          /\ penB = table(ageB)
          /\ ageA <= ageB => penA >= penB
          /\ ageB <= ageA => penB >= penA

\* The penalties on either side of the 90 s boundary have been computed.
C5_Witness ==
    /\ ageA = 89999 /\ penA = 2
    /\ ageB = 90000 /\ penB = 0

(***************************************************************************)
(* C6 as claimed: a successful try_cancel_order(id) of an order that was   *)
(* recorded and not since cancelled or filled returns and charges          *)
(* cancel_penalty(age), age being the time since it was recorded, for      *)
(* every age (0 points for an order older than the 5 minute TTL).          *)
(***************************************************************************)
C6_CancelChargesPenaltyOfAge ==
    [][(ret'.op = "try_cancel_order" /\ now' = now /\ ret'.ok
            /\ ret'.id \in DOMAIN placed) =>
         LET age == now - placed[ret'.id]
             table == IF age < 5000 THEN 8
                      ELSE IF age < 10000 THEN 6
                      ELSE IF age < 15000 THEN 5
                      ELSE IF age < 45000 THEN 4
                      ELSE IF age < 90000 THEN 2
                      ELSE 0
             c == Max(tl.counter
                      - ((now - tl.last_update) * tl.decay_rate) \div 1000, 0)
         IN /\ ret'.val = table
            /\ tl'.counter = c + 100 * table]_vars

(***************************************************************************)
(* C7: try_cancel_order on an order id that is not recorded (never         *)
(* recorded, or cancelled or filled since) charges the maximum penalty,    *)
(* 8 points, when admitted, and returns 8.                                 *)
(***************************************************************************)
C7_UnknownOrderMaxPenalty ==
    [][(ret'.op = "try_cancel_order" /\ now' = now /\ ret'.ok
            /\ ret'.id \notin DOMAIN placed) =>
         LET c == Max(tl.counter
                      - ((now - tl.last_update) * tl.decay_rate) \div 1000, 0)
         IN /\ ret'.val = 8
            /\ tl'.counter = c + 800]_vars

\* A cancel of the id that is never recorded has been admitted.
C7_Witness ==
    /\ ret.op = "try_cancel_order" /\ ret.id = UnknownId
    /\ ret.ok /\ ret.val = 8
    /\ tl.counter >= 800

(***************************************************************************)
(* C8: try_place_order(id, info), when admitted, charges exactly 1 point   *)
(* and records id (timestamped now); when refused it returns a wait,       *)
(* charges nothing and leaves the order table as it was.                   *)
(***************************************************************************)
C8_PlaceChargesOneOrNothing ==
    [][(ret'.op = "try_place_order" /\ now' = now) =>
         LET c == Max(tl.counter
                      - ((now - tl.last_update) * tl.decay_rate) \div 1000, 0)
             id == ret'.id
         IN IF ret'.ok
            THEN /\ c + 100 <= tl.max_counter
                 /\ tl'.counter = c + 100
                 /\ id \in DOMAIN tl'.orders
                 /\ tl'.orders[id].timestamp = now
                 /\ \A x \in DOMAIN tl'.orders \ {id} :
                        x \in DOMAIN tl.orders /\ tl'.orders[x] = tl.orders[x]
            ELSE /\ c + 100 > tl.max_counter
                 /\ ret'.val > 0
                 /\ tl'.counter = c
                 /\ tl'.orders = tl.orders]_vars

\* A placement has been refused, and its id has no entry in the table.
C8_Witness ==
    /\ ret.op = "try_place_order" /\ ~ret.ok /\ ret.val > 0
    /\ ret.id \notin DOMAIN tl.orders
    /\ tl.counter + 100 > tl.max_counter

(***************************************************************************)
(* C9, as claimed: every authenticated endpoint of the facade draws from   *)
(* one shared bucket, so the points charged by all of them and not yet     *)
(* decayed never exceed the tier's max_counter.                            *)
(***************************************************************************)
C9_OneSharedBucket ==
    DecayedCounter(pl, now) + DecayedCounter(tl, now)
        <= RateLimitParams(tier)[1] * 100

(***************************************************************************)
(* C9, as the code has it: the facade holds two buckets, each built with   *)
(* the tier's max_counter and decay rate.  A turn of wait_private (private *)
(* endpoints, cancel_all_orders) touches only the private bucket, a turn   *)
(* of wait_trading_order / wait_trading_cancel (add_order, cancel_order)   *)
(* only the trading bucket, and each bucket by itself never exceeds the    *)
(* tier's max_counter.                                                     *)
(***************************************************************************)
C9_TwoBucketsEachWithinTierMax ==
    /\ [](/\ pl.max_counter = RateLimitParams(tier)[1] * 100
          /\ tl.max_counter = RateLimitParams(tier)[1] * 100
          /\ DecayedCounter(pl, now) <= pl.counter
          /\ pl.counter <= pl.max_counter
          /\ DecayedCounter(tl, now) <= tl.counter
          /\ tl.counter <= tl.max_counter)
    /\ [][\A k \in Tasks :
            \* task k takes a turn of its wait loop
            (/\ fpc[k] \in {"idle", "sleep"}
             /\ fpc'[k] \in {"sleep", "inner"}
             /\ (fpc'[k] # fpc[k] \/ fwake'[k] # fwake[k]))
            => IF fkind'[k] \in PrivateKinds
               THEN tl' = tl
               ELSE pl' = pl]_vars

\* A private call has just been admitted although the trading bucket has
\* no room for a single order: the two buckets together hold more than the
\* tier's max_counter.
C9_Witness ==
    /\ enabled
    /\ \E k \in Tasks : fpc[k] = "inner" /\ fkind[k] \in PrivateKinds
    /\ pl.last_update = now
    /\ pl.counter >= 100
    /\ DecayedCounter(tl, now) + 100 > tl.max_counter

(***************************************************************************)
(* C10, as claimed: when a facade add_order returns with a server-assigned *)
(* order id, the order table tracks that id and no longer the placeholder  *)
(* id used for admission, and the number of tracked orders is the number   *)
(* of orders placed through the facade and not yet cancelled.              *)
(***************************************************************************)
C10_ServerIdReplacesPlaceholder ==
    [][\A k \in Tasks :
         \* add_order of task k returns with the server's id
         (/\ fpc[k] = "inner" /\ fkind[k] = "add_order"
          /\ fpc'[k] = "idle"
          /\ ServerId(fid[k][2]) \in open' \ open)
         => /\ TtlContains(tl'.orders, ServerId(fid[k][2]), now', OrderTtlMs)
            /\ ~TtlContains(tl'.orders, fid[k], now', OrderTtlMs)
            /\ tracked_orders(tl', now') = Cardinality(open')]_vars

(***************************************************************************)
(* C11, as claimed: with rate limiting enabled and finitely many calls,    *)
(* every call made through the facade is eventually admitted by its        *)
(* limiter and forwarded to the inner client, and is forwarded only by a   *)
(* turn of its wait loop in which the limiter admits it.                   *)
(***************************************************************************)
C11_EveryCallEventuallyAdmitted ==
    /\ \A k \in LiveTasks : (fpc[k] = "sleep") ~> (fpc[k] = "inner")
    /\ [][\A k \in LiveTasks :
            (fpc[k] # "inner" /\ fpc'[k] = "inner")
            => WaitOf(fkind'[k], fid'[k]).ok]_vars

(***************************************************************************)
(* C12, as claimed: with rate limiting disabled the facade is an identity. *)
(* Every call goes to the inner client at once (no task sleeps) and the    *)
(* limiters stay as they were built: no counter and no order record is     *)
(* changed by any call.                                                    *)
(***************************************************************************)
C12_DisabledIsIdentity ==
    ~enabled =>
        /\ \A k \in Tasks : fpc[k] # "sleep"
        /\ pl = PrivateRateLimiterNew(RateLimitParams(tier)[1],
                                      RateLimitParams(tier)[2], 0)
        /\ tl = TradingRateLimiterNew(RateLimitParams(tier)[1],
                                      RateLimitParams(tier)[2], 0)

(***************************************************************************)
(* C14: for a SlidingWindow (window, max) and any sequence of try_acquire  *)
(* calls and passages of time, no time interval of length window holds     *)
(* more than max admitted calls; an admitted call appends now to the       *)
(* active timestamps; a refused call adds no timestamp and returns window  *)
(* minus the age of the oldest admission still active.                     *)
(***************************************************************************)
C14_WindowNeverOverAdmits ==
    /\ [](\A i \in 1..Len(wlog) :
            Cardinality({j \in 1..Len(wlog) :
                            /\ wlog[i] - pubw.window < wlog[j]
                            /\ wlog[j] <= wlog[i]}) <= pubw.max_requests)
    /\ [][(wret'.op = "try_acquire" /\ now' = now) =>
            LET active == {i \in 1..Len(pubw.requests) :
                              now - pubw.requests[i] < pubw.window}
                oldest == CHOOSE i \in active :
                              \A j \in active : pubw.requests[i] <= pubw.requests[j]
            IN IF Cardinality(active) < pubw.max_requests
               THEN /\ wret'.ok
                    /\ pubw'.requests = Append(ActiveRequests(pubw, now), now)
                    /\ wlog' = Append(wlog, now)
               ELSE /\ ~wret'.ok
                    /\ pubw'.requests = ActiveRequests(pubw, now)
                    /\ wlog' = wlog
                    /\ wret'.val
                         = (pubw.window - (now - pubw.requests[oldest])) * 1000
                    /\ wret'.val > 0]_vars

\* A window of two calls has refused a third, after its first two
\* admissions had expired and two later ones had taken their place.
C14_Witness ==
    /\ wret.op = "try_acquire" /\ ~wret.ok
    /\ pubw.max_requests = 2
    /\ Len(wlog) = 4
    /\ Len(pubw.requests) = 2
    /\ wret.val < pubw.window * 1000

LiveInsert(k) == k \in DOMAIN cins /\ cins[k].t0 <= cnow /\ cnow < cins[k].t0 + cttl

C15_GetIffWithinTtl ==
    /\ \A k \in CacheKeys :
           TtlGet(cache, k, cnow, cttl) =
               IF LiveInsert(k)
               THEN [some |-> TRUE, value |-> cins[k].value]
               ELSE None
    /\ cret.op = "get" =>
           cret.result =
               IF LiveInsert(cret.key)
               THEN [some |-> TRUE, value |-> cins[cret.key].value]
               ELSE None

\* get at exactly t0 + T returned None, with the entry still in the map,
\* while another key inserted later is still returned.
C15_Witness ==
    /\ cret.op = "get"
    /\ cret.key \in DOMAIN cins
    /\ cret.key \in DOMAIN cache
    /\ cnow = cins[cret.key].t0 + cttl
    /\ cret.result = None
    /\ \E k \in CacheKeys \ {cret.key} :
           TtlGet(cache, k, cnow, cttl) = [some |-> TRUE, value |-> 200]

(***************************************************************************)
(* C16: after close() has completed, polling the event stream of the       *)
(* session (either flavor, whatever its reconnect configuration) yields no *)
(* event any more: every poll is pending or the end of the stream, and in  *)
(* particular none yields Reconnecting.                                    *)
(***************************************************************************)
C16_ClosedIsTerminal ==
    closed => ev.kind \in {"idle", "Pending", "End"}

(***************************************************************************)
(* C18: with max_reconnect_attempts = Some(n), the Reconnecting events     *)
(* emitted since the session was last connected are at most n, and the     *)
(* k-th of them carries attempt k.                                         *)
(***************************************************************************)
C18_AtMostNReconnecting ==
    max_reconnect_attempts # Unbounded =>
        /\ rrun <= max_reconnect_attempts
        /\ ev.kind = "Reconnecting" => ev.attempt = rrun

(***************************************************************************)
(* C20: a record made by subscribe(params), whatever the number of symbols *)
(* in params, is Active exactly when the server's successful confirmation  *)
(* of its subscribe frame (one message for each symbol) has been received  *)
(* since it was made, and Pending until then.                              *)
(***************************************************************************)
C20_ActiveIffConfirmed ==
    flavor = "spot" =>
        \A key \in DOMAIN subscriptions :
            /\ subscriptions[key].status \in {"Pending", "Active"}
            /\ subscriptions[key].status = "Active"
                   <=> got[key] = Expected(key)

(***************************************************************************)
(* C17: after a break of a connected session that emits Reconnecting, the  *)
(* consumer doing nothing but poll and the server accepting connections,   *)
(* the session is eventually connected again with reconnect_attempt = 0    *)
(* and has emitted Reconnected (unless close() is called first).           *)
(***************************************************************************)
C17_BreakLeadsToReconnected ==
    (ev.kind = "Reconnecting" /\ ~closed)
        ~> ((connected /\ reconnect_attempt = 0 /\ ev.kind = "Reconnected")
            \/ closed)

(***************************************************************************)
(* C19: when reconnect() has returned Ok, the frames written to the new    *)
(* socket are exactly one subscribe frame for each subscription recorded   *)
(* at the call, with the record's channel (feed), symbols and scope, and   *)
(* nothing else: none for a subscription unsubscribed before.              *)
(***************************************************************************)
FramesOf(f) == Cardinality({i \in DOMAIN wire : wire[i] = f})

C19_ResentEqualsRecorded ==
    rres = "Ok" =>
        /\ Len(wire) = Cardinality(DOMAIN subscriptions)
        /\ \A key \in DOMAIN subscriptions :
               FramesOf(Frame("subscribe", subscriptions[key].params)) = 1
        /\ \A p \in SubParams :
               KeyOf(p) \in dropped => FramesOf(Frame("subscribe", p)) = 0

\* reconnect() returned Ok on a session with a public record of two
\* symbols and a private record, one subscription having been unsubscribed
\* before.
C19_Witness ==
    /\ rres = "Ok"
    /\ dropped # {}
    /\ \E k1, k2 \in DOMAIN subscriptions :
           /\ subscriptions[k1].params.scope = "private"
           /\ subscriptions[k2].params.scope = "public"
           /\ Len(subscriptions[k2].params.symbol) = 2
    /\ Len(wire) = 2

(***************************************************************************)
(* C21: a subscription record is in the session's map neither after the    *)
(* caller has unsubscribed it nor after the server has answered its        *)
(* subscribe request with an error (unless it was subscribed again).       *)
(***************************************************************************)
C21_RejectedOrUnsubscribedIsRemoved ==
    \A key \in dropped \cup rejected : key \notin DOMAIN subscriptions

(***************************************************************************)
(* C23: in the token-flavor session at most one ping is unanswered at a    *)
(* time, a received pong leaves no ping outstanding, and a poll that finds  *)
(* the ping overdue on a connected session sets connected to false and     *)
(* yields Reconnecting or Disconnected.                                    *)
(***************************************************************************)
C23_PingDiscipline ==
    /\ [](flavor = "spot" =>
             /\ pings <= 1
             /\ ev.kind = "Pong" => last_ping = "none" /\ pings = 0)
    /\ [][(/\ flavor = "spot" /\ last_ping = "overdue" /\ connected
            /\ ev'.kind # "idle")
           => /\ ~connected'
              /\ ev'.kind \in {"Reconnecting", "Disconnected"}]_vars

\* The frame carries a discriminator its parser has a typed arm for, and
\* the payload of that arm decodes.
KnownAndDecodes(f) ==
    /\ f.json
    /\ IF f.first # "-"
       THEN IF f.flavor = "spot"
            THEN \/ f.first = "pong" /\ f.decodes
                 \/ /\ f.first \in SuccessMethods
                    /\ f.success => f.result /\ f.decodes
            ELSE /\ f.first \in FuturesEvents \ {"other_event"}
                 /\ f.decodes
       ELSE IF f.flavor = "spot"
            THEN f.second \in {"status", "heartbeat"} /\ f.decodes
            ELSE f.second \in TypedFeeds /\ f.decodes

(***************************************************************************)
(* C22: every text frame received yields exactly one event: the typed      *)
(* event of its discriminator when that is known and the payload decodes,  *)
(* and the raw value for every other frame; no frame is consumed without   *)
(* an event.                                                               *)
(***************************************************************************)
C22_EveryFrameYieldsAnEvent ==
    cpc = "ret" =>
        /\ cval.some
        /\ cval.some =>
               (cval.value \in {"ChannelData", "Raw"}
                    <=> ~KnownAndDecodes(carg))

(***************************************************************************)
(* C24: a session returned by connect_private has read a challenge frame   *)
(* as the last frame of its wait; after an error frame or after the        *)
(* deadline connect has failed; every private subscribe frame carries the  *)
(* challenge received and the signer's output for it; and without a stored *)
(* challenge pair subscribe_private sends no frame and records nothing.    *)
(***************************************************************************)
C24_ChallengeAuthentication ==
    /\ (apc = "session" /\ credentials.some) =>
           /\ heard # <<>>
           /\ heard[Len(heard)].kind = "challenge"
           /\ heard[Len(heard)].message.some
           /\ astate.some
    /\ ((\E i \in DOMAIN heard : heard[i].kind = "error")
            \/ aerr = "Timeout") => apc = "failed" /\ ~astate.some
    /\ \A i \in DOMAIN asent :
           asent[i].event = "subscribe" =>
               /\ apc = "session" /\ credentials.some /\ heard # <<>>
               /\ heard[Len(heard)].message.some
               /\ asent[i].original_challenge
                      = heard[Len(heard)].message.value
               /\ Ok(asent[i].signed_challenge)
                      = sign_challenge(credentials.value,
                                       heard[Len(heard)].message.value)
    /\ ~astate.some =>
           /\ feeds = {}
           /\ \A i \in DOMAIN asent : asent[i].event # "subscribe"

\* A private session that read another frame before its challenge and has
\* sent a private subscribe frame.
C24_Witness ==
    /\ apc = "session" /\ credentials.some
    /\ Len(heard) >= 2
    /\ \E i \in DOMAIN asent : asent[i].event = "subscribe"

\* The first entry of a body's non-empty error array, split at its first
\* ':' (the whole entry under the code "Unknown" when it has none).
FirstCode(body) ==
    LET e == body.error.value[1]
    IN IF FirstColon(e) > 0 THEN SubSeq(e, 1, FirstColon(e) - 1)
       ELSE <<"Unknown">>
FirstMessage(body) ==
    LET e == body.error.value[1]
    IN IF FirstColon(e) > 0 THEN SubSeq(e, FirstColon(e) + 1, Len(e))
       ELSE e

(***************************************************************************)
(* C25, as amended: a body that is no envelope (not JSON, no error array,  *)
(* or a result that does not deserialize) gives InvalidResponse; otherwise *)
(* a non-empty error array is judged by its first entry alone, whatever    *)
(* the result: RateLimit when its code is EAPI or EOrder and its message   *)
(* contains "Rate limit", Api{code, message} otherwise; an empty array     *)
(* gives the result when there is one and InvalidResponse when not.        *)
(***************************************************************************)
C25_SpotEnvelopeOutcome ==
    (cpc = "ret" /\ carg.api = "spot") =>
        IF ~carg.json \/ ~carg.error.some \/ carg.result = "mismatch"
        THEN cval.tag = "InvalidResponse"
        ELSE IF Len(carg.error.value) > 0
        THEN IF /\ FirstCode(carg) \in {<<"EAPI">>, <<"EOrder">>}
                /\ \E i \in DOMAIN FirstMessage(carg) :
                       FirstMessage(carg)[i] = "Rate limit"
             THEN cval.tag = "RateLimitExceeded"
             ELSE cval = Outcome("Api", FirstCode(carg), FirstMessage(carg))
        ELSE IF carg.result = "value"
        THEN cval.tag = "Ok"
        ELSE cval.tag = "InvalidResponse"

\* Two errors of which only the second is a rate limit, beside a result.
C25_Witness ==
    /\ cpc = "ret" /\ carg.api = "spot" /\ carg.json /\ carg.error.some
    /\ carg.result = "value"
    /\ Len(carg.error.value) = 2
    /\ carg.error.value[1][1] = "EGeneral"
    /\ carg.error.value[2][1] = "EAPI"
    /\ cval.tag = "Api"

(***************************************************************************)
(* C25, as claimed: with a non-empty error array the call fails with       *)
(* RateLimit when the first entry is "EAPI:Rate limit exceeded" or         *)
(* "EOrder:Rate limit exceeded" and with Api{code, message} otherwise,     *)
(* whatever the result field; with an empty array the result is returned   *)
(* when present and InvalidResponse when absent.                           *)
(***************************************************************************)
C25_ExactRateLimitStrings ==
    (cpc = "ret" /\ carg.api = "spot" /\ carg.json /\ carg.error.some) =>
        IF Len(carg.error.value) > 0
        THEN IF carg.error.value[1]
                    \in {<<"EAPI", ":", "Rate limit", " exceeded">>,
                         <<"EOrder", ":", "Rate limit", " exceeded">>}
             THEN cval.tag = "RateLimitExceeded"
             ELSE cval = Outcome("Api", FirstCode(carg), FirstMessage(carg))
        ELSE /\ carg.result = "value" => cval.tag = "Ok"
             /\ carg.result \in {"absent", "null"} =>
                    cval.tag = "InvalidResponse"

(***************************************************************************)
(* C26: the Futures parser fails with Api{"EFutures", error} whenever the  *)
(* body's result is "error", never returning a typed payload for such a    *)
(* body; any other body is decoded whole into the typed response, with     *)
(* InvalidResponse when it does not decode.                                *)
(***************************************************************************)
C26_FuturesErrorIsApiError ==
    (cpc = "ret" /\ carg.api = "futures" /\ carg.json) =>
        IF carg.result = "error"
        THEN cval.tag = "Api" /\ cval.code = <<"EFutures">>
        ELSE IF carg.typed THEN cval.tag = "Ok"
        ELSE cval.tag = "InvalidResponse"

(***************************************************************************)
(* C27: a private operation of the Spot or Futures HTTP client, called on  *)
(* a client built without credentials, returns MissingCredentials and      *)
(* sends no request.                                                       *)
(***************************************************************************)
C27_PrivateNeedsCredentials ==
    (/\ cpc = "ret"
     /\ ~carg.credentials
     /\ \/ carg.api = "spot" /\ carg.op \in SpotPrivateOps
        \/ carg.api = "futures" /\ carg.op \in FuturesPrivateOps)
    => cval = CallResult("MissingCredentials", <<>>)

(***************************************************************************)
(* C28: the Debug rendering of a Credentials, and of a client holding one, *)
(* does not contain the secret, and two of them that differ only in the    *)
(* secret render identically.                                              *)
(***************************************************************************)
C28_DebugHidesSecret ==
    cpc = "ret" =>
        /\ ~Contains(cval[1], carg.secret)
        /\ ~Contains(cval[2], carg.other_secret)
        /\ cval[1] = cval[2]

\* A Credentials rendered beside one with another secret.
C28_Witness ==
    /\ cpc = "ret"
    /\ carg.holder = "Credentials"
    /\ carg.secret # carg.other_secret
    /\ Contains(cval[1], carg.api_key)

\* The decimal digits of the numbers used.
DecimalDigits(n) ==
    CASE n = 0 -> <<"0">>
      [] n = 7 -> <<"7">>
      [] n = 12 -> <<"1", "2">>
      [] n = 120 -> <<"1", "2", "0">>
      [] OTHER -> <<"?">>

(***************************************************************************)
(* C29: with a base64 secret, the Spot signature is                        *)
(* Base64(HMAC-SHA-512(decoded secret, path || SHA-256(nonce || body)))    *)
(* and the Futures signature is                                            *)
(* Base64(HMAC-SHA-512(decoded secret, SHA-256(body || nonce || path))),   *)
(* the nonce as its decimal digits; each is that one value for its inputs  *)
(* and encodes 64 bytes.                                                   *)
(***************************************************************************)
C29_SignatureFormulas ==
    (cpc = "ret" /\ IsBase64(carg.credentials.api_secret)) =>
        LET key == Base64Decode(carg.credentials.api_secret)
            nonce_ascii == DecimalDigits(carg.nonce)
        IN /\ cval.tag = "ok"
           /\ carg.api = "spot" =>
                  cval.value =
                      Base64Encode(HmacSha512(key,
                          carg.path \o Sha256(nonce_ascii \o carg.body)))
           /\ carg.api = "futures" =>
                  cval.value =
                      Base64Encode(HmacSha512(key,
                          Sha256(carg.body \o nonce_ascii \o carg.path)))
           /\ IsBase64(cval.value)
           /\ ByteLen(Base64Decode(cval.value)) = 64

\* A Spot signature over a non-empty body and a nonce of several digits.
C29_Witness ==
    /\ cpc = "ret" /\ carg.api = "spot"
    /\ carg.nonce = 120 /\ Len(carg.body) = 2
    /\ cval.tag = "ok"

\* The payload has one "last" entry, a string or a number, and one other
\* entry, whose value has the shape of T.
Paginated(entries) ==
    /\ Len(entries) = 2
    /\ \E i, j \in 1..2 :
           /\ i # j
           /\ entries[i].key = "last"
           /\ entries[i].value.type \in {"string", "number"}
           /\ entries[j].key # "last"
           /\ entries[j].value.type = "data"

\* The cursor as a string: the string itself; a number's decimal digits.
Cursor(value) ==
    IF value.type = "string" THEN value.s ELSE DecimalDigits(value.n)

(***************************************************************************)
(* C30: deserializing a paginated payload gives last as a string (a number *)
(* as its decimal digits) and data as the value of the one key that is not *)
(* "last"; and deserializing the serialization of a LastAndData gives the  *)
(* same last and data back.                                                *)
(***************************************************************************)
C30_LastAndDataRoundTrip ==
    /\ (cpc = "ret" /\ carg.kind = "payload" /\ Paginated(carg.entries)) =>
           \E i, j \in 1..2 :
               /\ carg.entries[i].key = "last"
               /\ carg.entries[j].key # "last"
               /\ cval = Ok([last |-> Cursor(carg.entries[i].value),
                             data |-> carg.entries[j].value])
    /\ (cpc = "ret" /\ carg.kind = "value") => cval = Ok(carg.value)

\* A payload whose cursor is the number 120, after its data.
C30_Witness ==
    /\ cpc = "ret" /\ carg.kind = "payload"
    /\ Paginated(carg.entries)
    /\ carg.entries[2].key = "last"
    /\ carg.entries[2].value.type = "number"
    /\ cval.tag = "ok" /\ cval.value.last = <<"1", "2", "0">>

(***************************************************************************)
(* C31: a facade call that its limiter refuses and that is dropped while   *)
(* it sleeps leaves the limiters as if it had never been issued: the       *)
(* refused turn charges no points and keeps every tracked order's aging    *)
(* record (for cancel_order: the record of the order it names), and the    *)
(* drop itself changes neither limiter.                                    *)
(***************************************************************************)
C31_DroppedCallLeavesNoTrace ==
    [][\A k \in Tasks :
          /\ (fpc'[k] = "sleep" /\ (fpc[k] = "idle" \/ fpc[k] = "sleep")) =>
                /\ pl'.counter <= pl.counter
                /\ tl'.counter <= tl.counter
                /\ \A id \in DOMAIN tl.orders :
                      TtlContains(tl.orders, id, now, OrderTtlMs) =>
                          TtlContains(tl'.orders, id, now, OrderTtlMs)
          /\ (fpc[k] = "sleep" /\ fpc'[k] = "idle") =>
                pl' = pl /\ tl' = tl]_vars

(***************************************************************************)
(* C32: however an interval is split into successive update() (or          *)
(* update_counter()) calls with no charge in between, the counter at its   *)
(* end is max(0, counter - elapsed x decay) computed once over the whole   *)
(* interval.                                                               *)
(***************************************************************************)
C32_DecayIndependentOfPolling ==
    cpc = "ret" =>
        /\ cval.last_update = SumOf(carg.splits)
        /\ cval.counter =
               Max(carg.counter
                       - DecayAmount(SumOf(carg.splits), cval.decay_rate), 0)

(***************************************************************************)
(* C33: at every moment get, get_mut, contains, get_age, get_timestamp,    *)
(* remove, remove_with_age and active_count agree that exactly the         *)
(* unexpired entries are present, while len() also counts the expired      *)
(* ones; every such call returns accordingly; cleanup() removes exactly    *)
(* the expired entries and changes the result of none of these reads.      *)
(***************************************************************************)
Unexpired == {k \in DOMAIN cache : cnow - cache[k].timestamp < cttl}

C33_ReadsAgreeOnUnexpired ==
    /\ [](/\ \A k \in CacheKeys :
                /\ TtlGet(cache, k, cnow, cttl).some = (k \in Unexpired)
                /\ TtlGetMut(cache, k, cnow, cttl).some = (k \in Unexpired)
                /\ TtlContains(cache, k, cnow, cttl) = (k \in Unexpired)
                /\ TtlGetAge(cache, k, cnow, cttl).some = (k \in Unexpired)
                /\ TtlGetTimestamp(cache, k, cnow, cttl).some = (k \in Unexpired)
                /\ TtlRemoveResult(cache, k, cnow, cttl).some = (k \in Unexpired)
                /\ TtlRemoveWithAge(cache, k, cnow, cttl).result.some
                       = (k \in Unexpired)
          /\ TtlActiveCount(cache, cnow, cttl) = Cardinality(Unexpired)
          /\ TtlLen(cache) = Cardinality(DOMAIN cache)
          /\ LET cleaned == TtlCleanup(cache, cnow, cttl)
             IN /\ DOMAIN cleaned = Unexpired
                /\ \A k \in Unexpired : cleaned[k] = cache[k]
                /\ \A op \in CacheReadOps \ {"len"}, k \in CacheKeys :
                      CacheRead(op, cleaned, k, cnow, cttl)
                          = CacheRead(op, cache, k, cnow, cttl)
                /\ \A k \in CacheKeys :
                      /\ TtlRemoveResult(cleaned, k, cnow, cttl)
                             = TtlRemoveResult(cache, k, cnow, cttl)
                      /\ TtlRemoveWithAge(cleaned, k, cnow, cttl).result
                             = TtlRemoveWithAge(cache, k, cnow, cttl).result)
    /\ [][/\ (cret'.op \in CacheReadOps \ {"active_count", "len"}
                 /\ cnow' = cnow) =>
                /\ cache' = cache
                /\ cret'.result.some = (cret'.key \in Unexpired)
          /\ (cret'.op \in {"remove", "remove_with_age"} /\ cnow' = cnow) =>
                /\ cret'.result.some = (cret'.key \in Unexpired)
                /\ cret'.result.some =>
                       cret'.result.value = cache[cret'.key].value
                /\ DOMAIN cache' = (DOMAIN cache) \ {cret'.key}
          /\ (cret'.op = "active_count" /\ cnow' = cnow) =>
                cret'.result.value = Cardinality(Unexpired)
          /\ (cret'.op = "len" /\ cnow' = cnow) =>
                cret'.result.value = Cardinality(DOMAIN cache)
          /\ (cret'.op = "cleanup" /\ cnow' = cnow) =>
                DOMAIN cache' = Unexpired]_vars

\* get_age answered None for an expired entry that is still in the map:
\* len() is 2 while one entry is unexpired (test_cleanup, test_active_count).
C33_Witness ==
    /\ cret.op = "get_age" /\ cret.result = None
    /\ cret.key \in DOMAIN cache
    /\ TtlLen(cache) = 2
    /\ TtlActiveCount(cache, cnow, cttl) = 1

(***************************************************************************)
(* C34: the reconnect backoff is min(max_backoff, initial_backoff x        *)
(* 2^reconnect_attempt) milliseconds for every attempt number: never above *)
(* max_backoff, non-decreasing in the attempt number, never wrapped around *)
(* (initial 1 s, max 60 s: 1 s at attempt 0, 8 s at 3, 60 s at 10).        *)
(***************************************************************************)
\* min(cap, x * 2^n), by doubling until the cap is reached.
RECURSIVE DoubledUpTo(_, _, _)
DoubledUpTo(x, n, cap) ==
    IF x >= cap THEN cap
    ELSE IF n = 0 THEN x
    ELSE DoubledUpTo(2 * x, n - 1, cap)

C34_BackoffIsCappedDoubling ==
    cpc = "ret" =>
        /\ cval = DoubledUpTo(carg.initial, carg.attempt, carg.max)
        /\ cval <= carg.max
        /\ cval <= backoff_duration(carg.initial, carg.max, carg.attempt + 1)
        /\ (carg.initial = 1000 /\ carg.max = 60000) =>
              /\ carg.attempt = 0 => cval = 1000
              /\ carg.attempt = 3 => cval = 8000
              /\ carg.attempt = 10 => cval = 60000

\* The backoff of an attempt number at which 2^attempt saturates: the cap.
C34_Witness ==
    /\ cpc = "ret"
    /\ carg.attempt >= U64Bits
    /\ carg.initial = 1000 /\ carg.max = 60000
    /\ cval = 60000

Sending == {t \in SinkTasks : kpc[t] \in {"held", "head", "written", "refused"}}

C36_WritesAreSerialized ==
    /\ [](/\ Cardinality(Sending) <= 1
          /\ \A t \in Sending : kholder = t
          /\ \A i \in 1..Len(ksocket) :
                /\ ksocket[i].part = "head" /\ i < Len(ksocket) =>
                      ksocket[i + 1]
                          = Part(ksocket[i].task, ksocket[i].frame, "tail")
                /\ ksocket[i].part = "tail" =>
                      /\ i > 1
                      /\ ksocket[i - 1]
                           = Part(ksocket[i].task, ksocket[i].frame, "head"))
    /\ [][(/\ kpc[Caller] # "idle" /\ kpc'[Caller] = "idle"
           /\ kframe[Caller] \in SinkCommands
           /\ kres' = "Ok") =>
              /\ Len(ksocket) >= 2
              /\ ksocket[Len(ksocket)]
                     = Part(Caller, kframe[Caller], "tail")
              /\ ksocket' = ksocket]_vars

\* A command waits for the lock while a spawned ping task is half way
\* through its frame, and an earlier command's frame is complete.
C36_Witness ==
    /\ kpc[Caller] = "lock"
    /\ \E t \in PingTasks : kpc[t] = "head" /\ kholder = t
    /\ Len(ksocket) = 3
    /\ ksocket[2] = Part(Caller, "subscribe", "tail")
    /\ ksocket[3].frame = "ping"

C37_RetryAfterWaitIsAdmitted ==
    (cpc = "ret" /\ ~cval.first.ok /\ ~cval.charged) => cval.retry.ok

(***************************************************************************)
(* C40: on every TradingRateLimiter the public constructors give (any      *)
(* max_counter, any non-negative rate, PerPairTradingLimiter::default()    *)
(* included) a refused try_place_order or try_cancel_order returns a       *)
(* finite wait as its error value; it does not abort.                      *)
(***************************************************************************)
C40_RefusalReturnsFiniteWait ==
    (cpc = "ret" /\ ~cval.ok) => cval.val >= 0

====
